---- MODULE Spec2Model ----
(***************************************************************************)
(* A model of two subsystems of xous-core:                                 *)
(*   - the boot loader's pipeline (loader/src/main.rs): rust_entry,        *)
(*     boot_sequence, read_initial_config, check_resume, clear_ram;        *)
(*   - the RISC-V trap dispatcher (kernel/src/arch/riscv/irq.rs):          *)
(*     trap_handler, the interrupt-mask primitives and PREVIOUS_PAIR.      *)
(* Sizes are scaled down (a page is a few words) so that TLC can           *)
(* enumerate memory contents; the control flow is that of the source.      *)
(***************************************************************************)
EXTENDS Integers, Sequences, FiniteSets, TLC

(***************************************************************************)
(* Bounds of the model.                                                    *)
(***************************************************************************)
\* Tags that may follow the XArg header in an argument stream.
MaxTags == 3
\* Memory words hold 0..WordMax.
WordMax == 1
\* Pages of SRAM (the top two are the loader's stack, the third from the top
\* is the suspend marker).
RamPages == 4
\* Scaled stand-ins for check_resume's NUM_SECTORS (8) and WORDS_PER_SECTOR (128).
NUM_SECTORS == 2
WORDS_PER_SECTOR == 5

Word == 0..WordMax

(***************************************************************************)
(* Loader constants.                                                       *)
(***************************************************************************)
WORD_SIZE == 4
WORDS_PER_PAGE == NUM_SECTORS * WORDS_PER_SECTOR
PAGE_SIZE == WORDS_PER_PAGE * WORD_SIZE
\* "8k is reserved for our own stack": two pages.
STACK_RESERVED == 2 * PAGE_SIZE
\* size_of::<ProgramDescription>() and size_of::<MemoryRegionExtra>()
ProgramDescriptionSize == 28
MemoryRegionExtraSize == 16
XArgSize == 20

\* The SRAM the device has, as the XArg header of a well-formed image states it.
SramStart == PAGE_SIZE
SramSize == RamPages * PAGE_SIZE
RamAddrs == (SramStart \div WORD_SIZE)..((SramStart + SramSize) \div WORD_SIZE - 1)

\* Scaled layout of the root translation pointer (satp): the low SatpPpnBits
\* bits and the top bit are kept on resume (0x803F_FFFF), the SatpAsidBits bits
\* between them take the pid ((pid & 0x1FF) << 22).
SatpPpnBits == 2
SatpAsidBits == 2
SatpBits == SatpPpnBits + SatpAsidBits + 1
SatpKeepMask == 2 ^ (SatpBits - 1) + (2 ^ SatpPpnBits - 1)
SatpPidMask == 2 ^ SatpAsidBits - 1

\* consts.rs: the backup of the kernel arguments sits at the bottom of the
\* pages reserved for the loader's stack.
BACKUP_ARGS_ADDR == SramStart + SramSize - STACK_RESERVED
KERNEL_ARGUMENT_OFFSET == 4 * PAGE_SIZE

VARIABLES
    \* ---- loader ----
    feat,        \* build features: [secboot, resume, simulation_only]
    signed,      \* the region as it was signed: [body, args]
    region,      \* the signed region as found on disk: [body, args]
    lpc,         \* position of the loader in rust_entry / boot_sequence
    cfg,         \* BootConfig
    ram,         \* SRAM, by word address
    ram0,        \* SRAM as it was when rust_entry was entered
    written,     \* word addresses of SRAM the loader has written
    seeds,       \* the boot seed CSR: <<seed0, seed1>>
    resumeInfo,  \* check_resume's result [clean, was_forced_suspend, pid], and the sectors it hashed
    pageTables,  \* "none", "phase1" or "phase2"
    procs0,      \* cfg.processes[0] after phase_2: [satp, entrypoint, sp]
    kernelArgs,  \* what start_kernel was called with, or <<>>
    csr,         \* the CSR fields the resume path writes
    loaderPanic, \* the panic message, or ""
    boots,       \* how many times the machine has been reset since power-on
    lastCold,    \* what the most recent cold boot passed to start_kernel, or <<>>
    markerChecks \* what each check_resume reported since the marker was last written

loaderVars == <<feat, signed, region, lpc, cfg, ram, ram0, written, seeds, resumeInfo,
                pageTables, procs0, kernelArgs, csr, loaderPanic, boots, lastCold,
                markerChecks>>

VARIABLES
    \* ---- kernel ----
    sim,            \* the vexriscv interrupt mask register (a set bit enables)
    SIM_BACKING,    \* static mut SIM_BACKING
    PREVIOUS_PAIR,  \* static mut PREVIOUS_PAIR: None or <<pid, tid>>
    alive,          \* SystemServices: the processes that exist
    curPid,         \* current_pid()
    curTid,         \* each process's current thread
    threads,        \* each process's user threads
    excFrom,        \* per process: <<tid>> while its exception handler runs
    isrFrom,        \* <<pid, tid>>: the ISR's process and the thread it had
    sepc,           \* saved program counters of the threads
    present,        \* per process, the lazily-backed addresses already mapped
    switchto,       \* syscall.rs: the switch-to caller, or None
    handlerReg,     \* processes with a registered exception handler
    irqOwner,       \* irq.rs: the process that claimed each interrupt, or 0
    halted,         \* "" while the kernel runs, else why it stopped
    last,           \* what the last trap_handler invocation did
    maskLog,        \* the mask primitives called: [prev, op, before]
    traps,          \* how many traps the kernel has taken
    overflowChecks  \* how this kernel was built: "on" with overflow checks (the
                    \* debug profile), "off" with wrapping arithmetic (release),
                    \* "unknown" until an overflow shows which

kernelVars == <<sim, SIM_BACKING, PREVIOUS_PAIR, alive, curPid, curTid, threads,
                excFrom, isrFrom, sepc, present, switchto, handlerReg, irqOwner,
                halted, last, maskLog, traps, overflowChecks>>

VARIABLES
    \* ---- entropy-source controller (cramium-hal sce/trng.rs) ----
    trng,       \* struct Trng: [count, mode]
    trngCsr,    \* the registers the driver has written: [crsrc, crana, opt, pp]
    tpc,        \* "idle", or "wait" while get_u32 spins on BUFREADY
    bufReady,   \* the BUFREADY bit of SFR_SR
    trngLog,    \* the last driver call: what it was given and what it returned
    trngOps     \* how many driver calls have been made

trngVars == <<trng, trngCsr, tpc, bufReady, trngLog, trngOps>>

VARIABLES
    \* ---- IFRAM allocator (services/cram-hal-service main.rs) ----
    ifram_allocs, \* the two allocation tables: per bank, per page, None or <<sender>>
    halPanic,     \* "" while the service runs, else the panic that ended it
    halLog,       \* the last request served and the one before it
    halOps        \* how many requests have been served

halVars == <<ifram_allocs, halPanic, halLog, halOps>>

vars == <<loaderVars, kernelVars, trngVars, halVars>>

(***************************************************************************)
(* Kernel argument tags (args.rs): a name, a size in bytes and its data    *)
(* words.                                                                  *)
(***************************************************************************)
Tag(n, s, d) == [name |-> n, size |-> s, data |-> d]

\* The header of a well-formed stream: data[2] and data[3] are the SRAM bounds.
XArgTag == Tag("XArg", XArgSize, <<0, 0, SramStart, SramSize, 0>>)

HeaderTags ==
    { XArgTag,
      Tag("XArg", XArgSize - 4, <<0, 0, SramStart, SramSize>>),
      Tag("XKrn", ProgramDescriptionSize, <<>>) }

BodyTags ==
    { Tag("MREx", MemoryRegionExtraSize, <<>>),
      Tag("XKrn", ProgramDescriptionSize, <<>>),
      Tag("XKrn", ProgramDescriptionSize - 4, <<>>),
      Tag("IniE", 4, <<>>),
      Tag("IniF", 8, <<>>),
      Tag("IniE", 0, <<>>),
      Tag("Wxyz", 4, <<>>) }
    \cup { Tag("Bflg", 4, <<f>>) : f \in {1, 2, 4, 7} }

RECURSIVE SeqsUpTo(_, _)
SeqsUpTo(S, n) ==
    IF n = 0 THEN { <<>> }
    ELSE LET shorter == SeqsUpTo(S, n - 1)
         IN  shorter \cup { Append(s, x) : s \in { t \in shorter : Len(t) = n - 1 }, x \in S }

\* The argument streams the model parses: the empty stream, and a header
\* followed by up to MaxTags tags.
ArgStreams ==
    { <<>> } \cup { <<h>> \o body : h \in HeaderTags, body \in SeqsUpTo(BodyTags, MaxTags) }

\* A well-formed stream, used where the stream is not what is varied.
GoodArgs == <<XArgTag, Tag("XKrn", ProgramDescriptionSize, <<>>), Tag("IniE", 4, <<>>)>>

(***************************************************************************)
(* BootConfig (bootconfig.rs) and read_initial_config.                     *)
(***************************************************************************)
DefaultBootConfig ==
    [ sram_start |-> 0, sram_size |-> 0, regions |-> 0, no_copy |-> FALSE,
      base_addr |-> "null", debug |-> FALSE, init_process_count |-> 0,
      args |-> <<>>, args_base |-> 0, init_size |-> 0,
      processes_ptr |-> 0, runtime_page_tracker_ptr |-> 0 ]

BitSet(w, b) == (w \div (2 ^ b)) % 2 = 1

\* One iteration of the `for tag in i` loop; st = [cfg, kernel_seen, init_seen, panic].
ReadTagDebugOnBit1(st, tag) ==
    IF st.panic # "" THEN st
    ELSE IF tag.name = "MREx" THEN
        [st EXCEPT !.cfg.regions = tag.size \div MemoryRegionExtraSize]
    ELSE IF tag.name = "Bflg" THEN
        LET boot_flags == tag.data[1]
            c1 == IF BitSet(boot_flags, 0) THEN [st.cfg EXCEPT !.no_copy = TRUE] ELSE st.cfg
            c2 == IF BitSet(boot_flags, 1) THEN [c1 EXCEPT !.base_addr = "null"] ELSE c1
            c3 == IF BitSet(boot_flags, 1) THEN [c2 EXCEPT !.debug = TRUE] ELSE c2
        IN  [st EXCEPT !.cfg = c3]
    ELSE IF tag.name = "XKrn" THEN
        IF st.kernel_seen THEN [st EXCEPT !.panic = "kernel appears twice"]
        ELSE IF tag.size # ProgramDescriptionSize THEN [st EXCEPT !.panic = "invalid XKrn size"]
        ELSE [st EXCEPT !.kernel_seen = TRUE]
    ELSE IF tag.name \in {"IniE", "IniF"} THEN
        IF tag.size < 4 THEN [st EXCEPT !.panic = "invalid Init size"]
        ELSE [st EXCEPT !.init_seen = TRUE,
                        !.cfg.init_process_count = st.cfg.init_process_count + 1]
    ELSE st

\* The loop iteration without the `kernel appears twice` assertion.
ReadTagKernelTwice(st, tag) ==
    IF st.panic # "" THEN st
    ELSE IF tag.name = "MREx" THEN
        [st EXCEPT !.cfg.regions = tag.size \div MemoryRegionExtraSize]
    ELSE IF tag.name = "Bflg" THEN
        LET boot_flags == tag.data[1]
            c1 == IF BitSet(boot_flags, 0) THEN [st.cfg EXCEPT !.no_copy = TRUE] ELSE st.cfg
            c2 == IF BitSet(boot_flags, 1) THEN [c1 EXCEPT !.base_addr = "null"] ELSE c1
            c3 == IF BitSet(boot_flags, 2) THEN [c2 EXCEPT !.debug = TRUE] ELSE c2
        IN  [st EXCEPT !.cfg = c3]
    ELSE IF tag.name = "XKrn" THEN
        IF tag.size # ProgramDescriptionSize THEN [st EXCEPT !.panic = "invalid XKrn size"]
        ELSE [st EXCEPT !.kernel_seen = TRUE]
    ELSE IF tag.name \in {"IniE", "IniF"} THEN
        IF tag.size < 4 THEN [st EXCEPT !.panic = "invalid Init size"]
        ELSE [st EXCEPT !.init_seen = TRUE,
                        !.cfg.init_process_count = st.cfg.init_process_count + 1]
    ELSE st

ReadTag(st, tag) ==
    IF st.panic # "" THEN st
    ELSE IF tag.name = "MREx" THEN
        [st EXCEPT !.cfg.regions = tag.size \div MemoryRegionExtraSize]
    ELSE IF tag.name = "Bflg" THEN
        LET boot_flags == tag.data[1]
            c1 == IF BitSet(boot_flags, 0) THEN [st.cfg EXCEPT !.no_copy = TRUE] ELSE st.cfg
            c2 == IF BitSet(boot_flags, 1) THEN [c1 EXCEPT !.base_addr = "null"] ELSE c1
            c3 == IF BitSet(boot_flags, 2) THEN [c2 EXCEPT !.debug = TRUE] ELSE c2
        IN  [st EXCEPT !.cfg = c3]
    ELSE IF tag.name = "XKrn" THEN
        IF st.kernel_seen THEN [st EXCEPT !.panic = "kernel appears twice"]
        ELSE IF tag.size # ProgramDescriptionSize THEN [st EXCEPT !.panic = "invalid XKrn size"]
        ELSE [st EXCEPT !.kernel_seen = TRUE]
    ELSE IF tag.name \in {"IniE", "IniF"} THEN
        IF tag.size < 4 THEN [st EXCEPT !.panic = "invalid Init size"]
        ELSE [st EXCEPT !.init_seen = TRUE,
                        !.cfg.init_process_count = st.cfg.init_process_count + 1]
    ELSE st

RECURSIVE ReadTags(_, _, _)
ReadTags(st, tags, k) ==
    IF k > Len(tags) THEN st ELSE ReadTags(ReadTag(st, tags[k]), tags, k + 1)

\* The final assertions of read_initial_config.
FinalAssertsMissingInit(st) ==
    IF st.panic # "" THEN st
    ELSE IF ~st.kernel_seen THEN [st EXCEPT !.panic = "no kernel definition"]
    ELSE st

FinalAsserts(st) ==
    IF st.panic # "" THEN st
    ELSE IF ~st.kernel_seen THEN [st EXCEPT !.panic = "no kernel definition"]
    ELSE IF ~st.init_seen THEN [st EXCEPT !.panic = "no initial programs found"]
    ELSE st

\* read_initial_config testing only the name of the first tag.
read_initial_config_any_size(c, tags) ==
    LET st0 == [cfg |-> c, kernel_seen |-> FALSE, init_seen |-> FALSE, panic |-> ""]
    IN  IF Len(tags) = 0 THEN [st0 EXCEPT !.panic = "couldn't read initial tag"]
        ELSE IF tags[1].name # "XArg"
             THEN [st0 EXCEPT !.panic = "XArg wasn't first tag, or was invalid size"]
        ELSE LET st1 == [st0 EXCEPT !.cfg.sram_start = tags[1].data[3],
                                    !.cfg.sram_size = tags[1].data[4]]
             IN  FinalAsserts(ReadTags(st1, tags, 2))

\* read_initial_config(cfg) on the stream `tags`: the BootConfig it leaves and
\* the panic it raised ("" when it returned).
read_initial_config(c, tags) ==
    LET st0 == [cfg |-> c, kernel_seen |-> FALSE, init_seen |-> FALSE, panic |-> ""]
    IN  IF Len(tags) = 0 THEN [st0 EXCEPT !.panic = "couldn't read initial tag"]
        ELSE IF tags[1].name # "XArg" \/ tags[1].size # XArgSize
             THEN [st0 EXCEPT !.panic = "XArg wasn't first tag, or was invalid size"]
        ELSE LET st1 == [st0 EXCEPT !.cfg.sram_start = tags[1].data[3],
                                    !.cfg.sram_size = tags[1].data[4]]
             IN  FinalAsserts(ReadTags(st1, tags, 2))


(***************************************************************************)
(* secboot::validate_xous_img: the whole signed region, the kernel         *)
(* argument block included, must be what was signed.                       *)
(***************************************************************************)
validate_xous_img(r, sig) == r = sig

(***************************************************************************)
(* check_resume.                                                           *)
(***************************************************************************)
\* murmur3::murmur3_32(buf, 0), scaled to a word: any single word of buf
\* changes it, and an all-zero buffer does not hash to 0.
RECURSIVE SumSeq(_, _)
SumSeq(buf, k) == IF k > Len(buf) THEN 0 ELSE buf[k] + SumSeq(buf, k + 1)

murmur3_32(buf) == (1 + SumSeq(buf, 1)) % (WordMax + 1)

\* Word address of the suspend marker: sram_start + sram_size - PAGE_SIZE * 3.
SuspendMarker(c) == (c.sram_start + c.sram_size - PAGE_SIZE * 3) \div WORD_SIZE

MarkerAddrs(c) == SuspendMarker(c)..(SuspendMarker(c) + WORDS_PER_PAGE - 1)

\* hashbuf for one sector (0-based index), as a 1-based sequence of
\* WORDS_PER_SECTOR - 1 words; sector 0 has the seeds patched in.
HashBufShort(mem, c, sd, sector) ==
    [ i \in 1..(WORDS_PER_SECTOR - 1) |->
        IF sector = 0 /\ i = 2 THEN sd[1]
        ELSE IF sector = 0 /\ i = 3 THEN sd[2]
        ELSE IF i = WORDS_PER_SECTOR - 1 THEN 0
        ELSE mem[SuspendMarker(c) + sector * WORDS_PER_SECTOR + (i - 1)] ]

HashBuf(mem, c, sd, sector) ==
    [ i \in 1..(WORDS_PER_SECTOR - 1) |->
        IF sector = 0 /\ i = 2 THEN sd[1]
        ELSE IF sector = 0 /\ i = 3 THEN sd[2]
        ELSE mem[SuspendMarker(c) + sector * WORDS_PER_SECTOR + (i - 1)] ]

SectorMatches(mem, c, sd, sector) ==
    murmur3_32(HashBuf(mem, c, sd, sector))
        = mem[SuspendMarker(c) + (sector + 1) * WORDS_PER_SECTOR - 1]

\* The `for sector in 0..NUM_SECTORS` loop with the last sector deciding.
RECURSIVE CheckSectorsLastDecides(_, _, _, _, _)
CheckSectorsLastDecides(mem, c, sd, sector, st) ==
    IF sector >= NUM_SECTORS THEN st
    ELSE CheckSectorsLastDecides(mem, c, sd, sector + 1,
            [ clean |-> SectorMatches(mem, c, sd, sector),
              examined |-> Append(st.examined, sector) ])

\* The `for sector in 0..NUM_SECTORS` loop from `sector` on: a sector whose
\* hash differs from the stored word clears `clean`, and the loop goes on.
\* st = [clean, examined], examined being the sectors hashed so far.
RECURSIVE CheckSectors(_, _, _, _, _)
CheckSectors(mem, c, sd, sector, st) ==
    IF sector >= NUM_SECTORS THEN st
    ELSE CheckSectors(mem, c, sd, sector + 1,
            [ clean |-> IF ~SectorMatches(mem, c, sd, sector) THEN FALSE ELSE st.clean,
              examined |-> Append(st.examined, sector) ])

\* check_resume reading the forced-suspend word after the marker was zeroed.
check_resume_result_forced_late(mem, c, sd) ==
    LET st == CheckSectors(mem, c, sd, 0, [clean |-> TRUE, examined |-> <<>>])
        zeroed == [ a \in DOMAIN mem |-> IF a \in MarkerAddrs(c) THEN 0 ELSE mem[a] ]
    IN  [ clean |-> st.clean,
          was_forced_suspend |-> zeroed[SuspendMarker(c)] # 0,
          pid |-> HashBuf(mem, c, sd, 0)[4],
          examined |-> st.examined ]

\* (clean, was_forced_suspend, pid) as check_resume computes them from `mem`.
check_resume_result(mem, c, sd) ==
    LET st == CheckSectors(mem, c, sd, 0, [clean |-> TRUE, examined |-> <<>>])
    IN  [ clean |-> st.clean,
          was_forced_suspend |-> mem[SuspendMarker(c)] # 0,
          pid |-> HashBuf(mem, c, sd, 0)[4],
          examined |-> st.examined ]

\* "zero out the clean suspend marker"
ZeroMarkerFirstSector(mem, c) ==
    [ a \in DOMAIN mem |->
        IF a \in SuspendMarker(c)..(SuspendMarker(c) + WORDS_PER_SECTOR - 1) THEN 0 ELSE mem[a] ]

ZeroMarker(mem, c) == [ a \in DOMAIN mem |-> IF a \in MarkerAddrs(c) THEN 0 ELSE mem[a] ]

(***************************************************************************)
(* clear_ram.                                                              *)
(***************************************************************************)
ClearedAddrs(c) ==
    { c.sram_start \div WORD_SIZE + addr : addr \in 0..((c.sram_size - STACK_RESERVED) \div WORD_SIZE - 1) }

\* The loop running to the end of SRAM.
clear_ram_whole(mem, c) ==
    [ a \in DOMAIN mem |->
        IF a \in { c.sram_start \div WORD_SIZE + addr : addr \in 0..(c.sram_size \div WORD_SIZE - 1) }
        THEN 0 ELSE mem[a] ]

\* The loop stopping one word early.
clear_ram_one_short(mem, c) ==
    [ a \in DOMAIN mem |->
        IF a \in ClearedAddrs(c) /\ a + 1 \in ClearedAddrs(c) THEN 0 ELSE mem[a] ]

clear_ram(mem, c) == [ a \in DOMAIN mem |-> IF a \in ClearedAddrs(c) THEN 0 ELSE mem[a] ]

(***************************************************************************)
(* Bit operations on SatpBits-bit values.                                  *)
(***************************************************************************)
RECURSIVE BitAnd(_, _, _)
BitAnd(a, b, n) ==
    IF n = 0 THEN 0
    ELSE (a % 2) * (b % 2) + 2 * BitAnd(a \div 2, b \div 2, n - 1)

RECURSIVE BitOr(_, _, _)
BitOr(a, b, n) ==
    IF n = 0 THEN 0
    ELSE (IF a % 2 = 1 \/ b % 2 = 1 THEN 1 ELSE 0) + 2 * BitOr(a \div 2, b \div 2, n - 1)

\* The mask without the mode bit: 0x003F_FFFF.
ResumeSatpDropsMode(saved, pid) ==
    BitOr(BitAnd(saved, 2 ^ SatpPpnBits - 1, SatpBits),
          BitAnd(pid, SatpPidMask, SatpBits) * 2 ^ SatpPpnBits, SatpBits)

\* The pid shifted into place without the 0x1FF mask (the shift drops what
\* leaves the word).
ResumeSatpUnmaskedPid(saved, pid) ==
    BitOr(BitAnd(saved, SatpKeepMask, SatpBits),
          (pid * 2 ^ SatpPpnBits) % (2 ^ SatpBits), SatpBits)

\* (backup_args[3] & 0x803F_FFFF) | ((susres_pid & 0x1FF) << 22)
ResumeSatp(saved, pid) ==
    BitOr(BitAnd(saved, SatpKeepMask, SatpBits),
          BitAnd(pid, SatpPidMask, SatpBits) * 2 ^ SatpPpnBits, SatpBits)

BackupAddr(i) == BACKUP_ARGS_ADDR \div WORD_SIZE + i

(***************************************************************************)
(* Initial states of the loader.                                           *)
(***************************************************************************)
\* The feature sets a loader can be built with (clear_ram does not exist in
\* a simulation-only build, and the resume build calls it unconditionally).
Features ==
    { f \in [secboot : BOOLEAN, resume : BOOLEAN, simulation_only : BOOLEAN] :
        ~(f.resume /\ f.simulation_only) }

TrueSram == [sram_start |-> SramStart, sram_size |-> SramSize]

\* A marker page (by word offset) that a suspend with seeds sd, forced flag f,
\* manager pid p and filler d leaves behind.
CleanMarkerData(f, p, d) ==
    [ o \in 0..(WORDS_PER_PAGE - 1) |->
        IF o = 0 THEN f ELSE IF o = 3 THEN p ELSE d ]

MarkerBuf(data, sd, sector) ==
    [ i \in 1..(WORDS_PER_SECTOR - 1) |->
        IF sector = 0 /\ i = 2 THEN sd[1]
        ELSE IF sector = 0 /\ i = 3 THEN sd[2]
        ELSE data[sector * WORDS_PER_SECTOR + (i - 1)] ]

CleanMarker(sd, f, p, d) ==
    [ o \in 0..(WORDS_PER_PAGE - 1) |->
        IF o % WORDS_PER_SECTOR = WORDS_PER_SECTOR - 1
        THEN murmur3_32(MarkerBuf(CleanMarkerData(f, p, d), sd, o \div WORDS_PER_SECTOR))
        ELSE CleanMarkerData(f, p, d)[o] ]

\* The marker pages the model boots from: never written (all zero), clean,
\* and clean with one word changed.
InitMarkers(sd) ==
    { [ o \in 0..(WORDS_PER_PAGE - 1) |-> 0 ] }
    \cup { CleanMarker(sd, f, p, d) : f \in {0, 1}, p \in Word, d \in Word }
    \cup { [ CleanMarker(sd, 0, 1, 0) EXCEPT ![o] = (@ + 1) % (WordMax + 1) ] :
             o \in 0..(WORDS_PER_PAGE - 1) }

RamWith(fill, marker) ==
    [ a \in RamAddrs |->
        IF a \in MarkerAddrs(TrueSram) THEN marker[a - SuspendMarker(TrueSram)] ELSE fill ]

SeedPairs == { <<a, WordMax - a>> : a \in Word }

SignedRegion == [body |-> 0, args |-> GoodArgs]

\* What a region that is not the signed one may look like: a changed byte of
\* the body, or a changed kernel-argument block.
TamperedRegions ==
    { [SignedRegion EXCEPT !.body = 1],
      [SignedRegion EXCEPT !.args = Append(GoodArgs, Tag("Bflg", 4, <<1>>))],
      [SignedRegion EXCEPT !.args = <<XArgTag, Tag("IniE", 4, <<>>)>>] }

LoaderIdle ==
    /\ lpc = "rust_entry"
    /\ cfg = DefaultBootConfig
    /\ written = {}
    /\ resumeInfo = [clean |-> FALSE, was_forced_suspend |-> FALSE, pid |-> 0, examined |-> <<>>]
    /\ pageTables = "none"
    /\ procs0 = [satp |-> 0, entrypoint |-> 0, sp |-> 0]
    /\ kernelArgs = <<>>
    /\ csr = [power_state |-> 0, power_self |-> 0, uart_rx |-> 0, susres_state |-> {},
              pause |-> 0, soft_int |-> 0, interrupt |-> 0, uartsel |-> 0]
    /\ loaderPanic = ""
    /\ boots = 0
    /\ lastCold = <<>>
    /\ markerChecks = <<>>

\* Either the argument stream is varied (an untampered image, RAM of one
\* content), or the RAM, the seeds and the tampering are.
InitLoader ==
    /\ LoaderIdle
    /\ seeds \in SeedPairs
    /\ \/ /\ feat \in { f \in Features : ~f.secboot }
          /\ seeds = <<0, WordMax>>
          /\ region \in [body : {0}, args : ArgStreams]
          /\ signed = region
          /\ ram = RamWith(WordMax, [ o \in 0..(WORDS_PER_PAGE - 1) |-> 0 ])
       \/ /\ feat \in Features
          /\ signed = SignedRegion
          /\ region \in {SignedRegion} \cup TamperedRegions
          /\ \E fill \in {0, WordMax}, m \in InitMarkers(seeds) : ram = RamWith(fill, m)
    /\ ram0 = ram

(***************************************************************************)
(* The loader's steps.                                                     *)
(***************************************************************************)
\* rust_entry: with secboot, an image that does not validate stops here.
RustEntryNoHalt ==
    /\ UNCHANGED <<kernelVars, trngVars, halVars>>
    /\ lpc = "rust_entry"
    /\ lpc' = "boot_sequence"
    /\ UNCHANGED <<boots, lastCold, markerChecks>>
    /\ UNCHANGED <<feat, signed, region, cfg, ram, ram0, written, seeds, resumeInfo,
                   pageTables, procs0, kernelArgs, csr, loaderPanic>>

RustEntry ==
    /\ UNCHANGED <<kernelVars, trngVars, halVars>>
    /\ lpc = "rust_entry"
    /\ IF feat.secboot /\ ~validate_xous_img(region, signed)
       THEN lpc' = "halt"
       ELSE lpc' = "boot_sequence"
    /\ UNCHANGED <<boots, lastCold, markerChecks>>
    /\ UNCHANGED <<feat, signed, region, cfg, ram, ram0, written, seeds, resumeInfo,
                   pageTables, procs0, kernelArgs, csr, loaderPanic>>

\* boot_sequence, lines 98-103: build the BootConfig and parse the arguments.
BootReadConfig ==
    /\ UNCHANGED <<kernelVars, trngVars, halVars>>
    /\ lpc = "boot_sequence"
    /\ LET c0 == [DefaultBootConfig EXCEPT !.base_addr = "args.base", !.args = region.args]
           r  == read_initial_config(c0, region.args)
       IN  IF r.panic # ""
           THEN /\ lpc' = "panic"
                /\ loaderPanic' = r.panic
                /\ cfg' = cfg
           ELSE /\ lpc' = IF feat.resume THEN "check_resume" ELSE "cold_boot"
                /\ loaderPanic' = loaderPanic
                /\ cfg' = r.cfg
    /\ UNCHANGED <<boots, lastCold, markerChecks>>
    /\ UNCHANGED <<feat, signed, region, ram, ram0, written, seeds, resumeInfo,
                   pageTables, procs0, kernelArgs, csr>>

\* check_resume (feature "resume"): compare the sectors' hashes, then zero
\* the marker whatever the outcome.
CheckResumeInverted ==
    /\ UNCHANGED <<kernelVars, trngVars, halVars>>
    /\ lpc = "check_resume"
    /\ resumeInfo' = check_resume_result(ram, cfg, seeds)
    /\ ram' = ZeroMarker(ram, cfg)
    /\ written' = written \cup MarkerAddrs(cfg)
    /\ lpc' = IF resumeInfo'.clean THEN "cold_boot" ELSE "resume_path"
    /\ markerChecks' = Append(markerChecks, resumeInfo'.clean)
    /\ UNCHANGED <<boots, lastCold>>
    /\ UNCHANGED <<feat, signed, region, cfg, ram0, seeds, pageTables, procs0,
                   kernelArgs, csr, loaderPanic>>

CheckResume ==
    /\ UNCHANGED <<kernelVars, trngVars, halVars>>
    /\ lpc = "check_resume"
    /\ resumeInfo' = check_resume_result(ram, cfg, seeds)
    /\ ram' = ZeroMarker(ram, cfg)
    /\ written' = written \cup MarkerAddrs(cfg)
    /\ lpc' = IF resumeInfo'.clean THEN "resume_path" ELSE "cold_boot"
    /\ markerChecks' = Append(markerChecks, resumeInfo'.clean)
    /\ UNCHANGED <<boots, lastCold>>
    /\ UNCHANGED <<feat, signed, region, cfg, ram0, seeds, pageTables, procs0,
                   kernelArgs, csr, loaderPanic>>

\* The cold boot path up to phase_1: clear_ram, unless the build is
\* simulation-only.
ColdClearRam ==
    /\ UNCHANGED <<kernelVars, trngVars, halVars>>
    /\ lpc = "cold_boot"
    /\ IF ~feat.resume /\ feat.simulation_only
       THEN UNCHANGED <<ram, written>>
       ELSE /\ ram' = clear_ram(ram, cfg)
            /\ written' = written \cup ClearedAddrs(cfg)
    /\ lpc' = "phase_1"
    /\ UNCHANGED <<boots, lastCold, markerChecks>>
    /\ UNCHANGED <<feat, signed, region, cfg, ram0, seeds, resumeInfo, pageTables,
                   procs0, kernelArgs, csr, loaderPanic>>

\* phase_1 (phase1.rs): allocates the kernel's structures at the top of RAM.
Phase1 ==
    /\ UNCHANGED <<kernelVars, trngVars, halVars>>
    /\ lpc = "phase_1"
    /\ \E n \in 1..2 :
         LET start == cfg.sram_start + cfg.sram_size - n * PAGE_SIZE
         IN  cfg' = [cfg EXCEPT !.init_size = n * PAGE_SIZE,
                                !.args_base = start,
                                !.runtime_page_tracker_ptr = start + WORD_SIZE,
                                !.processes_ptr = start + 2 * WORD_SIZE]
    /\ pageTables' = "phase1"
    /\ lpc' = "phase_2"
    /\ UNCHANGED <<boots, lastCold, markerChecks>>
    /\ UNCHANGED <<feat, signed, region, ram, ram0, written, seeds, resumeInfo,
                   procs0, kernelArgs, csr, loaderPanic>>

\* phase_2 (phase2.rs): fills the page tables; processes[0] is the kernel.
Phase2 ==
    /\ UNCHANGED <<kernelVars, trngVars, halVars>>
    /\ lpc = "phase_2"
    /\ \E ppn \in {1, 2 ^ SatpPpnBits - 1} :
         procs0' = [satp |-> 2 ^ (SatpBits - 1) + 2 ^ SatpPpnBits + ppn,
                    entrypoint |-> KERNEL_ARGUMENT_OFFSET + PAGE_SIZE,
                    sp |-> KERNEL_ARGUMENT_OFFSET - WORD_SIZE]
    /\ pageTables' = "phase2"
    /\ lpc' = "jump"
    /\ UNCHANGED <<boots, lastCold, markerChecks>>
    /\ UNCHANGED <<feat, signed, region, cfg, ram, ram0, written, seeds, resumeInfo,
                   kernelArgs, csr, loaderPanic>>

\* boot_sequence, lines 172-239: compute the kernel's arguments, back them up
\* and start the kernel.
StartKernelCold ==
    /\ UNCHANGED <<kernelVars, trngVars, halVars>>
    /\ lpc = "jump"
    /\ LET krn_struct_start == cfg.sram_start + cfg.sram_size - cfg.init_size
           arg_offset == cfg.args_base - krn_struct_start + KERNEL_ARGUMENT_OFFSET
           ip_offset  == cfg.processes_ptr - krn_struct_start + KERNEL_ARGUMENT_OFFSET
           rpt_offset == cfg.runtime_page_tracker_ptr - krn_struct_start + KERNEL_ARGUMENT_OFFSET
           backup == <<arg_offset, ip_offset, rpt_offset, procs0.satp, procs0.entrypoint,
                       procs0.sp, IF cfg.debug THEN 1 ELSE 0>>
       IN  /\ ram' = [ a \in DOMAIN ram |->
                         IF a \in BackupAddr(0)..BackupAddr(6)
                         THEN backup[a - BackupAddr(0) + 1] ELSE ram[a] ]
           /\ written' = written \cup (BackupAddr(0)..BackupAddr(6))
           /\ kernelArgs' = [arg_offset |-> arg_offset, ip_offset |-> ip_offset,
                             rpt_offset |-> rpt_offset, satp |-> procs0.satp,
                             entrypoint |-> procs0.entrypoint, sp |-> procs0.sp,
                             debug |-> cfg.debug, clean |-> FALSE]
    /\ csr' = [csr EXCEPT !.uartsel = 1]
    /\ lpc' = "kernel"
    /\ lastCold' = kernelArgs'
    /\ UNCHANGED <<boots, markerChecks>>
    /\ UNCHANGED <<feat, signed, region, cfg, ram0, seeds, resumeInfo, pageTables,
                   procs0, loaderPanic>>

\* boot_sequence, lines 133-170 and 254-286: the resume path.
ResumeKernel ==
    /\ UNCHANGED <<kernelVars, trngVars, halVars>>
    /\ lpc = "resume_path"
    /\ csr' = [csr EXCEPT
                 !.power_state = 1, !.power_self = 1, !.uart_rx = 1,
                 !.susres_state = IF resumeInfo.was_forced_suspend
                                  THEN {"RESUME", "WAS_FORCED"} ELSE {"RESUME"},
                 !.pause = 1, !.soft_int = 1, !.interrupt = 1, !.uartsel = 0]
    /\ kernelArgs' = [arg_offset |-> ram[BackupAddr(0)], ip_offset |-> ram[BackupAddr(1)],
                      rpt_offset |-> ram[BackupAddr(2)],
                      satp |-> ResumeSatp(ram[BackupAddr(3)], resumeInfo.pid),
                      entrypoint |-> ram[BackupAddr(4)], sp |-> ram[BackupAddr(5)],
                      debug |-> ram[BackupAddr(6)] # 0, clean |-> TRUE]
    /\ lpc' = "kernel"
    /\ UNCHANGED <<boots, lastCold, markerChecks>>
    /\ UNCHANGED <<feat, signed, region, cfg, ram, ram0, written, seeds, resumeInfo,
                   pageTables, procs0, loaderPanic>>

LoaderNext ==
    \/ RustEntry
    \/ BootReadConfig
    \/ CheckResume
    \/ ColdClearRam
    \/ Phase1
    \/ Phase2
    \/ StartKernelCold
    \/ ResumeKernel


(***************************************************************************)
(***************************************************************************)
(* The kernel's trap dispatcher (kernel/src/arch/riscv/irq.rs).            *)
(***************************************************************************)
(***************************************************************************)
\* Processes are 1..MaxPid; pid 1 is the kernel and runs in supervisor mode.
MaxPid == 2
\* Interrupt lines: the mask register has NumIrqs bits.
NumIrqs == 2
\* Scaled width of usize: saved program counters are taken modulo 2^UsizeBits.
UsizeBits == 4
\* The kernel is followed for MaxTraps traps after it starts.
MaxTraps == 6

PIDs == 1..MaxPid
UserPids == 2..MaxPid
Irqs == 0..(NumIrqs - 1)
Masks == 0..(2 ^ NumIrqs - 1)
Usize == 2 ^ UsizeBits

\* arch/riscv/process.rs: thread slots and the sentinel addresses (scaled).
IRQ_TID == 0
EXCEPTION_TID == 1
INITIAL_TID == 2
SECOND_TID == 3
EXIT_THREAD == 13
RETURN_FROM_ISR == 14
RETURN_FROM_EXCEPTION_HANDLER == 15
\* Where user code runs, and how far a handler may move the saved pc.
UserPc == 4
HandlerPc == 8
HandlerSp == 12

TIDs == {IRQ_TID, EXCEPTION_TID, INITIAL_TID, SECOND_TID}

\* scause of the exceptions the model raises (the RISC-V privileged spec):
\* 2 illegal instruction, 3 breakpoint, 5 load access fault, 12 instruction
\* page fault, 13 load page fault, 15 store page fault; 8 and 9 are ecalls.
CauseIllegalInstruction == 2
CauseBreakpoint == 3
CauseLoadAccessFault == 5
CauseECallU == 8
CauseECallS == 9
CauseInstructionPageFault == 12
CauseLoadPageFault == 13
CauseStorePageFault == 15

\* Data addresses a thread may touch: one inside a lazily-backed reservation,
\* one that no reservation covers.
Addrs == {"lazy", "unmapped"}

TargetArchRiscv32 == TRUE

None == <<>>


(***************************************************************************)
(* The interrupt mask primitives.                                          *)
(***************************************************************************)
\* A mask with bit n set or cleared.
WithBit(m, n) == IF BitSet(m, n) THEN m ELSE m + 2 ^ n
WithoutBit(m, n) == IF BitSet(m, n) THEN m - 2 ^ n ELSE m

\* disable_all_irqs: <<sim, SIM_BACKING>> afterwards.
disable_all_irqs_keep_backing(m, b) == <<0, b>>

disable_all_irqs(m, b) == <<0, m>>

\* enable_all_irqs.
enable_all_irqs(m, b) == <<b, b>>

enable_irq(m, irq_no) == WithBit(m, irq_no)

disable_irq(m, irq_no) == WithoutBit(m, irq_no)

\* The disable_all_irqs calls counted apart: MaxNesting stands for that many
\* or more.
MaxNesting == 2

\* The last two mask operations and the mask each of them found; nest, the
\* disable_all_irqs calls made since the last enable_all_irqs returned (this
\* operation included, and for an enable_all_irqs those it found), and
\* outer, the mask the first of them found.
LogMask(log, op, before) ==
    LET open == IF log.op = "enable_all_irqs" THEN 0 ELSE log.nest
    IN  [ prev |-> log.op, prevBefore |-> log.before, op |-> op, before |-> before,
          nest |-> IF op # "disable_all_irqs" THEN open
                   ELSE IF open < MaxNesting THEN open + 1 ELSE MaxNesting,
          outer |-> IF op = "disable_all_irqs" /\ open = 0 THEN before ELSE log.outer ]

(***************************************************************************)
(* The kernel state as one record, so that trap_handler and the services   *)
(* it calls are operators from state to state.                             *)
(***************************************************************************)
KState ==
    [ sim |-> sim, SIM_BACKING |-> SIM_BACKING, PREVIOUS_PAIR |-> PREVIOUS_PAIR,
      alive |-> alive, curPid |-> curPid, curTid |-> curTid, threads |-> threads,
      excFrom |-> excFrom, isrFrom |-> isrFrom, sepc |-> sepc, present |-> present,
      switchto |-> switchto, handlerReg |-> handlerReg, irqOwner |-> irqOwner,
      halted |-> halted, last |-> last, maskLog |-> maskLog,
      overflowChecks |-> overflowChecks ]

\* What trap_handler is entered with: scause (interrupt bit and code),
\* sstatus.SPP, sepc, stval, register a0, whether SysCall::from_args decodes the
\* argument registers and to which call, what crate::syscall::handle answers
\* (and the thread it switched to or woke), sip, and whether the build turns
\* out to check overflow if this trap is the first to overflow.
TrapInput(interrupt, cause, spp, epc, tval, a0, decodes, call, response, next, pending) ==
    [ interrupt |-> interrupt, cause |-> cause, spp |-> spp, epc |-> epc, tval |-> tval,
      a0 |-> a0, decodes |-> decodes, call |-> call, response |-> response, next |-> next,
      pending |-> pending, checks |-> FALSE ]

NoInvoke == [tid |-> 0, pc |-> 0, sp |-> 0, ret |-> 0, args |-> <<>>]

\* The record of one trap_handler invocation.
NewLast(k, in, class) ==
    [ class |-> class, spp |-> in.spp, pid |-> k.curPid,
      tid |-> k.curTid[k.curPid], epc |-> in.epc, tval |-> in.tval,
      pair |-> k.PREVIOUS_PAIR, decodes |-> in.decodes,
      answer |-> in.response, \* what crate::syscall::handle returns, if called
      a0 |-> in.a0, cause |-> in.cause,
      invoked |-> NoInvoke,   \* what crate::arch::syscall::invoke was called with
      sepcBefore |-> 0,       \* the saved sepc that lines 218-223 adjust
      \* what the interrupt entry of lines 350-353 recorded, while a pair is kept
      entryPair |-> IF k.PREVIOUS_PAIR = None THEN None ELSE k.last.entryPair,
      aliveBefore |-> k.alive,
      pairAlive |-> k.PREVIOUS_PAIR # None /\ k.PREVIOUS_PAIR[1] \in k.alive,
      inHandler |-> k.excFrom[k.curPid] # None,
      hadHandler |-> k.curPid \in k.handlerReg,
      expressible |-> FALSE,  \* generate_exception_args gave Some
      outcomes |-> <<>>,      \* the terminal primitives reached, in order
      resumed |-> None,       \* <<pid, tid, pc>> handed to the last of them
      result |-> "",          \* the Result given to _xous_syscall_return_result
      steps |-> <<>>,         \* the calls made, in order
      handlerSaw |-> None,    \* crate::syscall::handle's <<pid, tid, in_irq>> and the
                              \* caller's saved sepc when it ran
      unrecognized |-> FALSE, \* the exception reached lines 274 and after
      ensured |-> FALSE,      \* ensure_page_exists_inner returned Ok
      terminated |-> {},      \* the processes terminate_process was called on
      panic |-> "",
      stale |-> k.last.isrReturned,      \* no interrupt since the last ISR return
      isrReturned |-> k.last.isrReturned ]

Step(k, name) == [k EXCEPT !.last.steps = Append(@, name)]

(***************************************************************************)
(* The terminal primitives.  Each is declared `-> !`: nothing after it in  *)
(* trap_handler runs.                                                      *)
(***************************************************************************)
\* crate::arch::syscall::resume(to_supervisor, thread): the thread runs from
\* its saved pc, and what is saved of a running thread is dead until the next
\* trap saves it again.
Resume(k, p, t) ==
    [k EXCEPT !.last.outcomes = Append(@, "resume"),
              !.last.resumed = <<p, t, k.sepc[p][t]>>,
              !.sepc[p][t] = 0,
              !.last.steps = Append(@, "resume")]

\* _xous_syscall_return_result(&result, thread)
ReturnResult(k, result, p, t) ==
    [k EXCEPT !.last.outcomes = Append(@, "return_result"),
              !.last.resumed = <<p, t, k.sepc[p][t]>>,
              !.sepc[p][t] = 0,
              !.last.result = result,
              !.last.steps = Append(@, "return_result")]

\* panic!() and loop {}: the kernel stops for good.
Halt(k, why) ==
    [k EXCEPT !.last.outcomes = Append(@, "halt"),
              !.last.panic = IF @ = "" THEN why ELSE @,
              !.halted = IF @ = "" THEN why ELSE @,
              !.last.steps = Append(@, "halt")]

\* Whether control has left trap_handler through a terminal primitive.
HaltedOnly(k) == \E i \in 1..Len(k.last.outcomes) : k.last.outcomes[i] = "halt"

Diverged(k) == k.last.outcomes # <<>>

(***************************************************************************)
(* SystemServices (services.rs), crate::syscall, crate::irq and            *)
(* crate::arch::mem, as far as trap_handler relies on them.                *)
(***************************************************************************)
\* The parent a terminated or exited process hands the CPU to.
ParentOf(p) == 1

\* ss.begin_exception_handler(pid): Some(handler) for a process that has
\* registered one and is not already running it.
HasHandler(k, pid) == pid \in k.handlerReg /\ k.excFrom[pid] = None

begin_exception_handler(k, pid) ==
    Step([k EXCEPT !.excFrom[pid] = <<k.curTid[pid]>>,
                   !.curTid[pid] = EXCEPTION_TID], "begin_exception_handler")

\* ss.finish_exception_handler_and_resume(pid): Ok only while the handler runs.
CanFinishException(k, pid) == k.excFrom[pid] # None

finish_exception_handler_and_resume(k, pid) ==
    Step([k EXCEPT !.curTid[pid] = k.excFrom[pid][1],
                   !.excFrom[pid] = None], "finish_exception_handler_and_resume")

\* ss.destroy_thread(pid, tid): another thread of the process becomes
\* current; a process left without threads ends and its parent runs.
ThreadsLeft(k, pid, tid) == k.threads[pid] \ {tid}

PickThread(S) == CHOOSE t \in S : \A u \in S : t <= u

DestroySwitches(k, pid, tid) == ThreadsLeft(k, pid, tid) # {}

destroy_thread(k, pid, tid) ==
    LET left == ThreadsLeft(k, pid, tid)
        k1 == [k EXCEPT !.threads[pid] = left,
                        !.excFrom[pid] = None,
                        !.sepc[pid][tid] = 0]
    IN  Step(IF left # {}
             THEN [k1 EXCEPT !.curTid[pid] = PickThread(left)]
             ELSE [k1 EXCEPT !.alive = @ \ {pid},
                             !.curTid[pid] = INITIAL_TID,
                             !.sepc[pid] = [t \in TIDs |-> 0],
                             !.present[pid] = {},
                             !.handlerReg = @ \ {pid},
                             !.irqOwner = [i \in Irqs |-> IF @[i] = pid THEN 0 ELSE @[i]],
                             !.curPid = ParentOf(pid)], "destroy_thread")

\* ss.finish_callback_and_resume(pid, tid): Ok while the process exists.
CanFinishCallback(k, ppid) == ppid \in k.alive

finish_callback_and_resume(k, ppid, ptid) ==
    LET k1 == IF k.isrFrom # None /\ k.isrFrom[1] # ppid
              THEN [k EXCEPT !.curTid[k.isrFrom[1]] = k.isrFrom[2]]
              ELSE k
    IN  Step([k1 EXCEPT !.curPid = ppid, !.curTid[ppid] = ptid, !.isrFrom = None],
             "finish_callback_and_resume")

\* ss.terminate_process(pid): the process and what it owns are gone, and the
\* parent becomes current.
terminate_process_other(k, pid) ==
    LET victim == IF pid = 1 THEN 2 ELSE 1
    IN  Step([k EXCEPT !.alive = @ \ {victim},
                       !.excFrom[victim] = None,
                       !.threads[victim] = {},
                       !.curTid[victim] = INITIAL_TID,
                       !.sepc[victim] = [t \in TIDs |-> 0],
                       !.present[victim] = {},
                       !.handlerReg = @ \ {victim},
                       !.irqOwner = [i \in Irqs |-> IF @[i] = victim THEN 0 ELSE @[i]],
                       !.curPid = ParentOf(pid),
                       !.last.terminated = @ \cup {victim}], "terminate_process")

terminate_process(k, pid) ==
    Step([k EXCEPT !.alive = @ \ {pid},
                   !.excFrom[pid] = None,
                   !.threads[pid] = {},
                   !.curTid[pid] = INITIAL_TID,
                   !.sepc[pid] = [t \in TIDs |-> 0],
                   !.present[pid] = {},
                   !.handlerReg = @ \ {pid},
                   !.irqOwner = [i \in Irqs |-> IF @[i] = pid THEN 0 ELSE @[i]],
                   !.curPid = ParentOf(pid),
                   !.last.terminated = @ \cup {pid}], "terminate_process")

\* crate::syscall::reset_switchto_caller()
reset_switchto_caller(k) == Step([k EXCEPT !.switchto = None], "reset_switchto_caller")

\* set_isr_return_pair(pid, tid)
set_isr_return_pair(k, pid, tid) ==
    Step([k EXCEPT !.PREVIOUS_PAIR = <<pid, tid>>], "set_isr_return_pair")

\* crate::syscall::handle(pid, tid, in_irq, call).  A call that switches
\* context answers ResumeProcess and has made in.next current; a call made
\* from an interrupt handler that wakes in.next has the ISR return to it.
syscall_handle(k, pid, tid, in) ==
    LET in_irq == k.PREVIOUS_PAIR # None
        k1 == Step([k EXCEPT !.last.handlerSaw = <<pid, tid, in_irq, k.sepc[pid][tid]>>],
                   "syscall::handle")
    IN  IF in.response = "ResumeProcess"
        THEN [k1 EXCEPT !.curPid = in.next[1],
                        !.curTid[in.next[1]] = in.next[2],
                        !.switchto = <<pid, tid>>]
        ELSE IF in.call.kind = "SetExceptionHandler"
        THEN [k1 EXCEPT !.handlerReg = @ \cup {pid}]
        ELSE IF in.call.kind = "ClaimInterrupt" /\ k.irqOwner[in.call.irq] = 0
        THEN [k1 EXCEPT !.irqOwner[in.call.irq] = pid,
                        !.sim = enable_irq(@, in.call.irq)]
        ELSE IF in_irq /\ in.next # None
        THEN set_isr_return_pair(k1, in.next[1], in.next[2])
        ELSE k1

\* crate::arch::mem::ensure_page_exists_inner(addr): Ok for an address in a
\* lazily-backed reservation, which it maps.
CanEnsurePage(k, pid, addr) == addr = "lazy"

ensure_page_exists_forgets(k, pid, addr) ==
    Step([k EXCEPT !.last.ensured = TRUE], "ensure_page_exists_inner")

ensure_page_exists_inner(k, pid, addr) ==
    Step([k EXCEPT !.present[pid] = @ \cup {addr}, !.last.ensured = TRUE],
         "ensure_page_exists_inner")

\* crate::irq::handle(irqs_pending): interrupts nobody claimed are masked;
\* the first claimed one has all interrupts disabled and its owner's handler
\* made current on the owner's interrupt thread.
RECURSIVE irq_handle(_, _, _)
irq_handle(k, pending, irq_no) ==
    IF irq_no >= NumIrqs THEN k
    ELSE IF ~BitSet(pending, irq_no) THEN irq_handle(k, pending, irq_no + 1)
    ELSE IF k.irqOwner[irq_no] \in k.alive
    THEN LET owner == k.irqOwner[irq_no]
             m == disable_all_irqs(k.sim, k.SIM_BACKING)
         IN  Step([k EXCEPT !.sim = m[1], !.SIM_BACKING = m[2],
                            !.isrFrom = <<owner, k.curTid[owner]>>,
                            !.curPid = owner,
                            !.curTid[owner] = IRQ_TID], "disable_all_irqs")
    ELSE irq_handle([k EXCEPT !.sim = disable_irq(@, irq_no)], pending, irq_no + 1)

(***************************************************************************)
(* trap_handler                                                            *)
(***************************************************************************)
Wrap(n) == n % (2 ^ UsizeBits)

\* PREVIOUS_PAIR.take()
PeekPair(k) == k

TakePair(k) ==
    Step([k EXCEPT !.PREVIOUS_PAIR = None, !.last.isrReturned = TRUE], "PREVIOUS_PAIR.take")

ResumeCurrent(k) == Resume(k, k.curPid, k.curTid[k.curPid])

\* Lines 131-139.
KernelStackFault(in) ==
    /\ TargetArchRiscv32
    /\ ~in.interrupt
    /\ in.spp = "Supervisor"
    /\ in.cause = CauseStorePageFault

IsSyscall(in) == ~in.interrupt /\ in.cause \in {CauseECallS, CauseECallU}

\* Line 150.
AdvanceSepcTwice(k, pid, tid) == [k EXCEPT !.sepc[pid][tid] = Wrap(@ + 8)]

AdvanceSepc(k, pid, tid) == [k EXCEPT !.sepc[pid][tid] = Wrap(@ + 4)]

\* .unwrap_or_else(xous_kernel::Result::Error), line 163.
UnwrapKeepsErr(r) == r

UnwrapOrError(r) == IF r = "Err(e)" THEN "Error(e)" ELSE r

\* Lines 143-178 with the sepc advance moved after crate::syscall::handle.
SyscallPathAdvancesLate(k, in) ==
    LET pid == k.curPid
        tid == k.curTid[pid]
        k1 == Step(k, "SysCall::from_args")
        k2 == IF in.decodes THEN k1
              ELSE ReturnResult(k1, "Error(UnhandledSyscall)", pid, tid)
    IN  IF Diverged(k2) THEN k2
        ELSE LET k3 == Step(AdvanceSepc(syscall_handle(k2, pid, tid, in), pid, tid),
                            "sepc += 4")
                 response == UnwrapOrError(in.response)
             IN  IF response = "ResumeProcess"
                 THEN ResumeCurrent(k3)
                 ELSE ReturnResult(k3, response, k3.curPid, k3.curTid[k3.curPid])

\* Lines 143-178.
SyscallPath(k, in) ==
    LET pid == k.curPid
        tid == k.curTid[pid]
        k1 == Step(Step(AdvanceSepc(k, pid, tid), "sepc += 4"), "SysCall::from_args")
        k2 == IF in.decodes THEN k1
              ELSE ReturnResult(k1, "Error(UnhandledSyscall)", pid, tid)
    IN  IF Diverged(k2) THEN k2
        ELSE LET k3 == syscall_handle(k2, pid, tid, in)
                 response == UnwrapOrError(in.response)
             IN  IF response = "ResumeProcess"
                 THEN ResumeCurrent(k3)
                 ELSE ReturnResult(k3, response, k3.curPid, k3.curTid[k3.curPid])

\* generate_exception_args(&ex).is_some()
generate_exception_args(cause) ==
    cause \in { CauseIllegalInstruction, CauseLoadAccessFault, CauseInstructionPageFault,
                CauseLoadPageFault, CauseStorePageFault }

\* Lines 187-206 with the thread resumed whether or not the page was mapped.
PageFaultPathResumesAnyway(k, in) ==
    IF CanEnsurePage(k, k.curPid, in.tval)
    THEN ResumeCurrent(ensure_page_exists_inner(k, k.curPid, in.tval))
    ELSE ResumeCurrent(Step(k, "ensure_page_exists_inner failed"))

\* Lines 187-206.
PageFaultPath(k, in) ==
    IF CanEnsurePage(k, k.curPid, in.tval)
    THEN ResumeCurrent(ensure_page_exists_inner(k, k.curPid, in.tval))
    ELSE Step(k, "ensure_page_exists_inner failed")

\* `a0 as isize`: the register read as a two's-complement number.
AsIsize(a0) == IF a0 >= 2 ^ (UsizeBits - 1) THEN a0 - 2 ^ UsizeBits ELSE a0

IsizeMin == -(2 ^ (UsizeBits - 1))

\* `as usize`
AsUsize(i) == (i + 2 ^ UsizeBits) % (2 ^ UsizeBits)

\* isize::abs: isize::MIN has no absolute value; with overflow checks the
\* call panics, without them it returns isize::MIN.
IsizeAbs(d, checks) ==
    IF d = IsizeMin
    THEN [panic |-> IF checks THEN "attempt to negate with overflow" ELSE "", value |-> d]
    ELSE [panic |-> "", value |-> IF d < 0 THEN -d ELSE d]

\* `sepc -= n` and `sepc += n` on usize: a result outside 0..usize::MAX
\* panics with overflow checks and wraps without them.
UsizeSub(a, n, checks) ==
    [panic |-> IF checks /\ a < n THEN "attempt to subtract with overflow" ELSE "",
     value |-> AsUsize(a - n)]

UsizeAdd(a, n, checks) ==
    [panic |-> IF checks /\ a + n >= 2 ^ UsizeBits THEN "attempt to add with overflow" ELSE "",
     value |-> Wrap(a + n)]

\* Lines 218-223.
AdjustSepc(sepcv, a0, checks) ==
    LET pc_adjust == AsIsize(a0)
        abs == IsizeAbs(pc_adjust, checks)
    IN  IF abs.panic # "" THEN abs
        ELSE IF pc_adjust < 0 THEN UsizeSub(sepcv, AsUsize(abs.value), checks)
        ELSE UsizeAdd(sepcv, AsUsize(abs.value), checks)

\* Lines 208-227.
ReturnFromExceptionHandlerPath(k, in, pid) ==
    IF ~CanFinishException(k, pid)
    THEN Halt(k, "unable to finish exception handler")
    ELSE LET k1 == finish_exception_handler_and_resume(k, pid)
             tid == k1.curTid[k1.curPid]
             overflows == AdjustSepc(k1.sepc[k1.curPid][tid], in.a0, TRUE).panic # ""
             checks == IF k.overflowChecks = "unknown" THEN in.checks
                       ELSE k.overflowChecks = "on"
             adj == AdjustSepc(k1.sepc[k1.curPid][tid], in.a0, checks)
             k2 == Step([k1 EXCEPT !.last.sepcBefore = k1.sepc[k1.curPid][tid],
                                   !.overflowChecks =
                                       IF ~overflows THEN @
                                       ELSE IF checks THEN "on" ELSE "off"],
                        "adjust sepc")
         IN  IF adj.panic # "" THEN Halt(k2, adj.panic)
             ELSE Resume([k2 EXCEPT !.sepc[k2.curPid][tid] = adj.value], k2.curPid, tid)

\* Lines 229-242 with the recorded pair dropped along with the thread.
ExitThreadPathDropsPair(k, in, pid) ==
    LET tid == k.curTid[k.curPid]
        k1 == destroy_thread([k EXCEPT !.PREVIOUS_PAIR = None], pid, tid)
        k2 == IF DestroySwitches(k, pid, tid) THEN reset_switchto_caller(k1) ELSE k1
    IN  ResumeCurrent(k2)

\* Lines 229-242 with the thread read at line 230 resumed in the end.
ExitThreadPathResumesExited(k, in, pid) ==
    LET tid == k.curTid[k.curPid]
        k1 == destroy_thread(k, pid, tid)
        k2 == IF DestroySwitches(k, pid, tid) THEN reset_switchto_caller(k1) ELSE k1
    IN  Resume(k2, pid, tid)

\* Lines 229-242.
ExitThreadPath(k, in, pid) ==
    LET tid == k.curTid[k.curPid]
        k1 == destroy_thread(k, pid, tid)
        k2 == IF DestroySwitches(k, pid, tid) THEN reset_switchto_caller(k1) ELSE k1
    IN  ResumeCurrent(k2)

\* Lines 244-269 with the mask restored before the recorded pair is made current.
ReturnFromIsrPathEnablesFirst(k, in) ==
    IF k.PREVIOUS_PAIR = None
    THEN Halt(k, "got RETURN_FROM_ISR with no previous PID")
    ELSE LET previous_pid == k.PREVIOUS_PAIR[1]
             previous_context == k.PREVIOUS_PAIR[2]
             k1 == TakePair(k)
             m == enable_all_irqs(k1.sim, k1.SIM_BACKING)
             k2 == Step([k1 EXCEPT !.sim = m[1], !.SIM_BACKING = m[2]], "enable_all_irqs")
         IN  IF ~CanFinishCallback(k2, previous_pid)
             THEN Halt(k2, "unable to resume previous PID")
             ELSE ResumeCurrent(finish_callback_and_resume(k2, previous_pid,
                                                           previous_context))

\* Lines 244-269.
ReturnFromIsrPath(k, in) ==
    IF k.PREVIOUS_PAIR = None
    THEN Halt(k, "got RETURN_FROM_ISR with no previous PID")
    ELSE LET previous_pid == k.PREVIOUS_PAIR[1]
             previous_context == k.PREVIOUS_PAIR[2]
             k1 == TakePair(k)
         IN  IF ~CanFinishCallback(k1, previous_pid)
             THEN Halt(k1, "unable to resume previous PID")
             ELSE LET k2 == finish_callback_and_resume(k1, previous_pid, previous_context)
                      m == enable_all_irqs(k2.sim, k2.SIM_BACKING)
                      k3 == Step([k2 EXCEPT !.sim = m[1], !.SIM_BACKING = m[2]],
                                 "enable_all_irqs")
                  IN  ResumeCurrent(k3)

\* Lines 186-272: the exceptions trap_handler knows.
RecognizedPath(k, in, pid) ==
    IF in.cause \in {CauseStorePageFault, CauseLoadPageFault}
    THEN PageFaultPath(k, in)
    ELSE IF in.cause = CauseInstructionPageFault /\ in.epc = RETURN_FROM_EXCEPTION_HANDLER
    THEN ReturnFromExceptionHandlerPath(k, in, pid)
    ELSE IF in.cause = CauseInstructionPageFault /\ in.epc = EXIT_THREAD
    THEN ExitThreadPath(k, in, pid)
    ELSE IF in.cause = CauseInstructionPageFault /\ in.epc = RETURN_FROM_ISR
    THEN ReturnFromIsrPath(k, in)
    ELSE k

\* The triple generate_exception_args builds: the exception's kind, the
\* faulting pc and the faulting address or instruction word.
ExceptionKind(cause) ==
    CASE cause = CauseIllegalInstruction -> "IllegalInstruction"
      [] cause = CauseLoadAccessFault -> "LoadAccessFault"
      [] cause = CauseInstructionPageFault -> "InstructionPageFault"
      [] cause = CauseLoadPageFault -> "LoadPageFault"
      [] cause = CauseStorePageFault -> "StorePageFault"
      [] OTHER -> "None"

ExceptionArgs(in) == <<ExceptionKind(in.cause), in.epc, in.tval>>

\* crate::arch::syscall::invoke(thread, supervisor, pc, sp, ret_addr, args):
\* the thread starts at pc, on sp, with args in its argument registers.
invoke(k, p, t, pc, sp, ret_addr, args) ==
    Step([k EXCEPT !.sepc[p][t] = pc,
                   !.last.invoked = [tid |-> t, pc |-> pc, sp |-> sp, ret |-> ret_addr,
                                     args |-> args]], "invoke")

\* Lines 277-303 with the thread-exit sentinel as the handler's return address.
HandlerPathReturnsToExit(k, in, pid) ==
    IF generate_exception_args(in.cause) /\ HasHandler(k, pid)
    THEN LET k1 == begin_exception_handler(k, pid)
             k2 == invoke(k1, k1.curPid, EXCEPTION_TID, HandlerPc, HandlerSp,
                          EXIT_THREAD, ExceptionArgs(in))
         IN  Resume(k2, k2.curPid, EXCEPTION_TID)
    ELSE k

\* Lines 277-303.
HandlerPath(k, in, pid) ==
    IF generate_exception_args(in.cause) /\ HasHandler(k, pid)
    THEN LET k1 == begin_exception_handler(k, pid)
             k2 == invoke(k1, k1.curPid, EXCEPTION_TID, HandlerPc, HandlerSp,
                          RETURN_FROM_EXCEPTION_HANDLER, ExceptionArgs(in))
         IN  Resume(k2, k2.curPid, EXCEPTION_TID)
    ELSE k

\* Lines 305-342.
TerminateOther(k, pid) == reset_switchto_caller(terminate_process_other(k, pid))

TerminatePath(k, pid) == reset_switchto_caller(terminate_process(k, pid))

FatalPathAlwaysLoops(k, in, pid) == Halt(k, "!!! KERNEL FAILURE !!!")

FatalPath(k, in, pid) ==
    LET is_kernel_failure == in.spp = "Supervisor"
        k1 == IF is_kernel_failure THEN Halt(k, "!!! KERNEL FAILURE !!!") ELSE k
    IN  IF Diverged(k1) THEN k1
        ELSE ResumeCurrent(TerminatePath(k1, pid))

\* Lines 182-342.
ExceptionPath(k, in, pid) ==
    LET k1 == RecognizedPath(k, in, pid)
    IN  IF Diverged(k1) THEN k1
        ELSE LET k2 == HandlerPath([k1 EXCEPT !.last.unrecognized = TRUE,
                                              !.last.expressible =
                                                  generate_exception_args(in.cause)],
                                   in, pid)
             IN  IF Diverged(k2) THEN k2 ELSE FatalPath(k2, in, pid)

\* Lines 343-359 without the is_none test of line 350.
InterruptPathAlwaysRecords(k, in, pid) ==
    LET k1 == [k EXCEPT !.PREVIOUS_PAIR = <<pid, k.curTid[k.curPid]>>,
                        !.last.entryPair = <<pid, k.curTid[k.curPid]>>]
        k2 == irq_handle([k1 EXCEPT !.last.isrReturned = FALSE], in.pending, 0)
    IN  ResumeCurrent(k2)

\* Lines 343-359.
InterruptPath(k, in, pid) ==
    LET k1 == IF k.PREVIOUS_PAIR = None
              THEN [k EXCEPT !.PREVIOUS_PAIR = <<pid, k.curTid[k.curPid]>>,
                             !.last.entryPair = <<pid, k.curTid[k.curPid]>>]
              ELSE k
        k2 == irq_handle([k1 EXCEPT !.last.isrReturned = FALSE], in.pending, 0)
    IN  ResumeCurrent(k2)

TrapClass(in) ==
    IF in.interrupt THEN "interrupt"
    ELSE IF KernelStackFault(in) THEN "kernel_stack"
    ELSE IF IsSyscall(in) THEN "syscall"
    ELSE IF in.cause \in {CauseStorePageFault, CauseLoadPageFault} THEN "page_fault"
    ELSE IF in.cause = CauseInstructionPageFault /\ in.epc = RETURN_FROM_EXCEPTION_HANDLER
    THEN "return_from_exception_handler"
    ELSE IF in.cause = CauseInstructionPageFault /\ in.epc = EXIT_THREAD THEN "exit_thread"
    ELSE IF in.cause = CauseInstructionPageFault /\ in.epc = RETURN_FROM_ISR
    THEN "return_from_isr"
    ELSE "exception"

\* The trap entry code has saved the interrupted context, sepc included, in
\* the current thread before trap_handler runs.
trap_handler(k, in) ==
    LET tid == k.curTid[k.curPid]
        k0 == [k EXCEPT !.sepc[k.curPid][tid] = in.epc,
                        !.last = NewLast(k, in, TrapClass(in))]
        k1 == IF KernelStackFault(in) THEN Halt(k0, "Maybe ran out of kernel stack?") ELSE k0
    IN  IF Diverged(k1) THEN k1
        ELSE LET pid == k1.curPid
                 k2 == IF IsSyscall(in) THEN SyscallPath(k1, in) ELSE k1
             IN  IF Diverged(k2) THEN k2
                 ELSE IF ~in.interrupt THEN ExceptionPath(k2, in, pid)
                 ELSE InterruptPath(k2, in, pid)

(***************************************************************************)
(* The kernel as a state machine: one action per class of trap.            *)
(***************************************************************************)
NoLast ==
    [ class |-> "none", spp |-> "User", pid |-> 1, tid |-> INITIAL_TID,
      epc |-> 0, tval |-> "none", pair |-> None, decodes |-> TRUE, entryPair |-> None,
      answer |-> "Ok", a0 |-> 0, cause |-> 0, invoked |-> NoInvoke, sepcBefore |-> 0,
      aliveBefore |-> {}, pairAlive |-> FALSE, inHandler |-> FALSE, hadHandler |-> FALSE,
      expressible |-> FALSE, outcomes |-> <<>>, resumed |-> None, result |-> "",
      steps |-> <<>>, handlerSaw |-> None, unrecognized |-> FALSE, ensured |-> FALSE, terminated |-> {},
      panic |-> "", stale |-> FALSE, isrReturned |-> FALSE ]

NoMaskLog ==
    [ prev |-> "none", prevBefore |-> 0, op |-> "none", before |-> 0, nest |-> 0, outer |-> 0 ]

\* The kernel as kmain leaves it: the kernel process runs, the initial
\* processes exist, nothing is claimed or registered.
KernelBooted ==
    /\ SIM_BACKING = 0
    /\ PREVIOUS_PAIR = None
    /\ alive = PIDs
    /\ curPid = 1
    /\ curTid = [p \in PIDs |-> INITIAL_TID]
    /\ threads = [p \in PIDs |-> IF p = 1 THEN {INITIAL_TID} ELSE {INITIAL_TID, SECOND_TID}]
    /\ excFrom = [p \in PIDs |-> None]
    /\ isrFrom = None
    /\ sepc = [p \in PIDs |-> [t \in TIDs |-> 0]]
    /\ present = [p \in PIDs |-> {}]
    /\ switchto = None
    /\ handlerReg = {}
    /\ irqOwner = [i \in Irqs |-> 0]
    /\ halted = ""
    /\ last = NoLast
    /\ maskLog = NoMaskLog
    /\ traps = 0
    /\ overflowChecks = "unknown"

Apply(in) ==
    \E k \in {trap_handler(KState, in)} :
        /\ sim' = k.sim
        /\ SIM_BACKING' = k.SIM_BACKING
        /\ PREVIOUS_PAIR' = k.PREVIOUS_PAIR
        /\ alive' = k.alive
        /\ curPid' = k.curPid
        /\ curTid' = k.curTid
        /\ threads' = k.threads
        /\ excFrom' = k.excFrom
        /\ isrFrom' = k.isrFrom
        /\ sepc' = k.sepc
        /\ present' = k.present
        /\ switchto' = k.switchto
        /\ handlerReg' = k.handlerReg
        /\ irqOwner' = k.irqOwner
        /\ halted' = k.halted
        /\ last' = k.last
        /\ maskLog' = k.maskLog
        /\ traps' = traps + 1
        /\ overflowChecks' = k.overflowChecks
        /\ UNCHANGED <<loaderVars, trngVars, halVars>>

\* sstatus.SPP at the trap: the kernel process runs in supervisor mode; under
\* any other pid the CPU is in user mode, or in the kernel serving that pid.
Spps == IF curPid = 1 THEN {"Supervisor"} ELSE {"User", "Supervisor"}

\* The threads a system call may switch to or wake.
OtherThreads == { <<p, curTid[p]>> : p \in alive \ {curPid} }

\* The calls of a user process the model tells apart (the kernel process
\* registers no handler and claims no interrupt).
Calls ==
    IF curPid = 1 THEN { [kind |-> "Other", irq |-> 0] }
    ELSE { [kind |-> "Other", irq |-> 0], [kind |-> "SetExceptionHandler", irq |-> 0] }
            \cup { [kind |-> "ClaimInterrupt", irq |-> i] : i \in Irqs }

NoCall == [kind |-> "Other", irq |-> 0]

\* What crate::syscall::handle may answer to a call: Ok(Result::Ok),
\* Ok(Result::ResumeProcess) or Err(e).
Responses(call) ==
    IF call.kind = "SetExceptionHandler" THEN { <<"Ok", None>> }
    ELSE IF call.kind = "ClaimInterrupt"
    THEN { <<IF irqOwner[call.irq] = 0 THEN "Ok" ELSE "Err(e)", None>> }
    ELSE { <<"Ok", None>>, <<"Err(e)", None>> }
            \cup { <<"ResumeProcess", n>> : n \in OtherThreads }
            \cup { <<"Ok", n>> : n \in IF PREVIOUS_PAIR = None THEN {} ELSE OtherThreads }

TrapSyscall ==
    /\ halted = ""
    /\ traps < MaxTraps
    /\ \E decodes \in BOOLEAN :
        \E call \in IF decodes THEN Calls ELSE {NoCall} :
            \E r \in IF decodes THEN Responses(call) ELSE { <<"Ok", None>> } :
                Apply(TrapInput(FALSE, IF curPid = 1 THEN CauseECallS ELSE CauseECallU,
                                IF curPid = 1 THEN "Supervisor" ELSE "User",
                                UserPc, "none", 0, decodes, call, r[1], r[2], 0))

\* A load or store to an address whose page is not present.
TrapPageFault ==
    /\ halted = ""
    /\ traps < MaxTraps
    /\ \E cause \in {CauseLoadPageFault, CauseStorePageFault}, spp \in Spps,
          addr \in Addrs \ present[curPid] :
        /\ ~(spp = "Supervisor" /\ cause = CauseStorePageFault)
        /\ Apply(TrapInput(FALSE, cause, spp, UserPc, addr, 0, TRUE, NoCall, "Ok", None, 0))

\* A store page fault taken in supervisor mode.
TrapKernelStack ==
    /\ halted = ""
    /\ traps < MaxTraps
    /\ \E addr \in Addrs \ present[curPid] :
        Apply(TrapInput(FALSE, CauseStorePageFault, "Supervisor", UserPc, addr, 0,
                        TRUE, NoCall, "Ok", None, 0))

\* An instruction fetch from one of the three sentinel addresses.
TrapReturnFromExceptionHandler ==
    /\ halted = ""
    /\ traps < MaxTraps
    /\ \E spp \in Spps, a0 \in {0, 4, Usize - 4, 2 ^ (UsizeBits - 1)}, checks \in BOOLEAN :
        Apply([TrapInput(FALSE, CauseInstructionPageFault, spp,
                         RETURN_FROM_EXCEPTION_HANDLER, "none", a0, TRUE, NoCall, "Ok", None,
                         0) EXCEPT !.checks = checks])

\* (The kernel process's only thread never exits.)
TrapExitThread ==
    /\ halted = ""
    /\ curPid # 1
    /\ traps < MaxTraps
    /\ \E spp \in Spps :
        Apply(TrapInput(FALSE, CauseInstructionPageFault, spp, EXIT_THREAD, "none", 0,
                        TRUE, NoCall, "Ok", None, 0))

TrapReturnFromIsr ==
    /\ halted = ""
    /\ traps < MaxTraps
    /\ \E spp \in Spps :
        Apply(TrapInput(FALSE, CauseInstructionPageFault, spp, RETURN_FROM_ISR, "none", 0,
                        TRUE, NoCall, "Ok", None, 0))

\* Any other exception.
TrapException ==
    /\ halted = ""
    /\ traps < MaxTraps
    /\ \E cause \in {CauseIllegalInstruction, CauseBreakpoint}, spp \in Spps :
        Apply(TrapInput(FALSE, cause, spp, UserPc, "unmapped", 0, TRUE, NoCall, "Ok", None, 0))

\* A hardware interrupt: at least one pending line is enabled.
TrapInterrupt ==
    /\ halted = ""
    /\ traps < MaxTraps
    /\ \E pending \in Masks, spp \in Spps :
        /\ BitAnd(pending, sim, NumIrqs) # 0
        /\ Apply(TrapInput(TRUE, 0, spp, UserPc, "none", 0, TRUE, NoCall, "Ok", None, pending))

Next ==
    \/ TrapSyscall
    \/ TrapPageFault
    \/ TrapKernelStack
    \/ TrapReturnFromExceptionHandler
    \/ TrapExitThread
    \/ TrapReturnFromIsr
    \/ TrapException
    \/ TrapInterrupt

(***************************************************************************)
(***************************************************************************)
(* The entropy-source controller (libs/cramium-hal/src/sce/trng.rs).       *)
(***************************************************************************)
(***************************************************************************)
\* The driver is followed for MaxTrngOps calls.
MaxTrngOps == 8
\* setup_raw_generation is called with the counts 0..MaxSmallCount and with
\* the counts around the refill and around the top of u16.
MaxSmallCount == 3

\* `count: u16`
U16 == 65536
\* self.setup_raw_generation(256)
RefillCount == 256

SetupCounts == (0..MaxSmallCount) \cup {RefillCount - 1, RefillCount, U16 - 1}

\* bitflags Options and Config.
GENERATION_COUNT_POS == 0
GENERATION_COUNT_MASK == 65535
SEGMENT_B_SELECT == 65536
GEN_EN == 1
GEN_INTERVAL_4 == 8192
RESEED_INTERVAL_1 == 16384
HEALTHTEST_LEN_POS == 6
HEALTHTEST_LEN_MASK == 4032
\* LOW_FREQ_EN | HIGH_FREQ_EN | LOW_FREQ_SRC_MASK | HIGH_FREQ_SRC_MASK
EntropySourceAll == 1 + 2 + 28 + 4064
\* Analog::ENABLE_MASK | Analog::VALID_MASK
AnalogAll == 65280 + 255

CsrBits == 17

\* Trng::new: nothing is written to the peripheral.
TrngNewStruct == [count |-> 0, mode |-> "Uninit"]
CsrAtReset == [crsrc |-> 0, crana |-> 0, opt |-> 0, pp |-> 0]

\* setup_raw_generation(count): the struct and the registers it leaves.
setup_raw_generation_keeps_mode(t, count) ==
    LET healthest_len ==
            IF count > HEALTHTEST_LEN_MASK \div (2 ^ HEALTHTEST_LEN_POS)
            THEN HEALTHTEST_LEN_MASK \div (2 ^ HEALTHTEST_LEN_POS)
            ELSE count
    IN  [ trng |-> [count |-> count, mode |-> t.mode],
          csr  |-> [ crsrc |-> EntropySourceAll,
                     crana |-> AnalogAll,
                     opt   |-> BitOr(BitAnd(count * 2 ^ GENERATION_COUNT_POS,
                                            GENERATION_COUNT_MASK, CsrBits),
                                     SEGMENT_B_SELECT, CsrBits),
                     pp    |-> BitOr(GEN_EN + GEN_INTERVAL_4 + RESEED_INTERVAL_1,
                                     BitAnd(healthest_len * 2 ^ HEALTHTEST_LEN_POS,
                                            HEALTHTEST_LEN_MASK, CsrBits),
                                     CsrBits) ] ]

setup_raw_generation(t, count) ==
    LET healthest_len ==
            IF count > HEALTHTEST_LEN_MASK \div (2 ^ HEALTHTEST_LEN_POS)
            THEN HEALTHTEST_LEN_MASK \div (2 ^ HEALTHTEST_LEN_POS)
            ELSE count
    IN  [ trng |-> [count |-> count, mode |-> "Raw"],
          csr  |-> [ crsrc |-> EntropySourceAll,
                     crana |-> AnalogAll,
                     opt   |-> BitOr(BitAnd(count * 2 ^ GENERATION_COUNT_POS,
                                            GENERATION_COUNT_MASK, CsrBits),
                                     SEGMENT_B_SELECT, CsrBits),
                     pp    |-> BitOr(GEN_EN + GEN_INTERVAL_4 + RESEED_INTERVAL_1,
                                     BitAnd(healthest_len * 2 ^ HEALTHTEST_LEN_POS,
                                            HEALTHTEST_LEN_MASK, CsrBits),
                                     CsrBits) ] ]

\* `self.count -= 1` on a u16 (a release build wraps).
CountMinusOne(c) == (c - 1) % U16

\* get_u32 up to its busy-wait: the struct and registers it leaves, whether
\* it goes on to wait for BUFREADY, and what it returns when it does not.
get_u32_no_refill(t, regs) ==
    IF t.mode = "Uninit" THEN
        [trng |-> t, csr |-> regs, wait |-> FALSE, ret |-> "None", refill |-> FALSE]
    ELSE IF t.mode = "Raw" THEN
        [trng |-> [t EXCEPT !.count = CountMinusOne(t.count)], csr |-> regs,
         wait |-> TRUE, ret |-> "pending", refill |-> FALSE]
    ELSE [trng |-> t, csr |-> regs, wait |-> FALSE, ret |-> "panic", refill |-> FALSE]

\* get_u32 without the mode check of line 127.
get_u32_samples_uninit(t, regs) ==
    IF t.mode \in {"Uninit", "Raw"} THEN
        [trng |-> [t EXCEPT !.count = CountMinusOne(t.count)], csr |-> regs,
         wait |-> TRUE, ret |-> "pending", refill |-> FALSE]
    ELSE [trng |-> t, csr |-> regs, wait |-> FALSE, ret |-> "panic", refill |-> FALSE]

get_u32(t, regs) ==
    IF t.mode = "Uninit" THEN
        [trng |-> t, csr |-> regs, wait |-> FALSE, ret |-> "None", refill |-> FALSE]
    ELSE IF t.mode = "Raw" THEN
        IF t.count > 0 THEN
            [trng |-> [t EXCEPT !.count = CountMinusOne(t.count)], csr |-> regs,
             wait |-> TRUE, ret |-> "pending", refill |-> FALSE]
        ELSE
            \* re-init generation automatically
            LET s == setup_raw_generation(t, RefillCount)
            IN  [trng |-> [s.trng EXCEPT !.count = CountMinusOne(s.trng.count)],
                 csr |-> s.csr, wait |-> TRUE, ret |-> "pending", refill |-> TRUE]
    ELSE \* Mode::Lfsr, Mode::Aes: todo!()
        [trng |-> t, csr |-> regs, wait |-> FALSE, ret |-> "panic", refill |-> FALSE]

get_count_remaining(t) == t.count

\* trngLog: the last call (op, its argument, the count before it, its result
\* and the word it returned, whether it refilled, the registers it read),
\* with n the count of the last setup_raw_generation a caller made and k the
\* get_u32 calls made since.
NoTrngLog ==
    [ op |-> "new", arg |-> 0, before |-> 0, ret |-> "", word |-> 0, refill |-> FALSE,
      reads |-> {}, n |-> 0, k |-> 0 ]

TrngNew ==
    /\ trng = TrngNewStruct
    /\ trngCsr = CsrAtReset
    /\ tpc = "idle"
    /\ bufReady = FALSE
    /\ trngLog = NoTrngLog
    /\ trngOps = 0

TrngSetup ==
    /\ tpc = "idle"
    /\ trngOps < MaxTrngOps
    /\ \E count \in SetupCounts :
         /\ trng' = setup_raw_generation(trng, count).trng
         /\ trngCsr' = setup_raw_generation(trng, count).csr
         /\ trngLog' = [ op |-> "setup_raw_generation", arg |-> count, before |-> trng.count,
                         ret |-> "", word |-> 0, refill |-> FALSE, reads |-> {},
                         n |-> count, k |-> 0 ]
    /\ trngOps' = trngOps + 1
    /\ UNCHANGED <<tpc, bufReady>>
    /\ UNCHANGED <<loaderVars, kernelVars, halVars>>

\* get_u32 from its entry to its return or to the busy-wait on BUFREADY.
TrngGetU32 ==
    /\ tpc = "idle"
    /\ trngOps < MaxTrngOps
    /\ \E r \in {get_u32(trng, trngCsr)} :
         /\ trng' = r.trng
         /\ trngCsr' = r.csr
         /\ tpc' = IF r.wait THEN "wait" ELSE "idle"
         /\ trngLog' = [ op |-> "get_u32", arg |-> 0, before |-> trng.count,
                         ret |-> r.ret, word |-> 0, refill |-> r.refill, reads |-> {},
                         n |-> trngLog.n, k |-> trngLog.k + 1 ]
    /\ trngOps' = trngOps + 1
    /\ UNCHANGED bufReady
    /\ UNCHANGED <<loaderVars, kernelVars, halVars>>

\* The busy-wait given up without BUFREADY.
TrngGetU32ReadyOrTimeout ==
    /\ tpc = "wait"
    /\ \E w \in Word :
         trngLog' = [trngLog EXCEPT !.ret = "Some", !.word = w,
                                    !.reads = {"SFR_SR", "SFR_BUF"}]
    /\ tpc' = "idle"
    /\ bufReady' = FALSE
    /\ UNCHANGED <<trng, trngCsr, trngOps>>
    /\ UNCHANGED <<loaderVars, kernelVars, halVars>>

\* The busy-wait ends: SFR_SR shows BUFREADY, SFR_BUF is read and returned.
TrngGetU32Ready ==
    /\ tpc = "wait"
    /\ bufReady
    /\ \E w \in Word :
         trngLog' = [trngLog EXCEPT !.ret = "Some", !.word = w,
                                    !.reads = {"SFR_SR", "SFR_BUF"}]
    /\ tpc' = "idle"
    /\ bufReady' = FALSE
    /\ UNCHANGED <<trng, trngCsr, trngOps>>
    /\ UNCHANGED <<loaderVars, kernelVars, halVars>>

\* The peripheral has the next word ready.
TrngHwReady ==
    /\ ~bufReady
    /\ bufReady' = TRUE
    /\ UNCHANGED <<trng, trngCsr, tpc, trngLog, trngOps>>
    /\ UNCHANGED <<loaderVars, kernelVars, halVars>>

TrngNext == TrngSetup \/ TrngGetU32 \/ TrngGetU32Ready \/ TrngHwReady

(***************************************************************************)
(***************************************************************************)
(* The IFRAM allocator of the HAL service                                  *)
(* (services/cram-hal-service/src/main.rs).                                *)
(***************************************************************************)
(***************************************************************************)
\* Pages per IFRAM bank (HW_IFRAM0_MEM_LEN / 4096; 32 on the chip).
IframPages == 4
\* The service is followed for MaxHalOps requests.
MaxHalOps == 3
\* Clients are the senders 1..MaxSenders.
MaxSenders == 2

IFRAM_PAGE == 4096
\* utralib: the two banks have the same length and follow each other.
HW_IFRAM0_MEM_LEN == IframPages * IFRAM_PAGE
HW_IFRAM1_MEM_LEN == HW_IFRAM0_MEM_LEN
HW_IFRAM0_MEM == 2 * HW_IFRAM0_MEM_LEN
HW_IFRAM1_MEM == HW_IFRAM0_MEM + HW_IFRAM0_MEM_LEN

Senders == 1..MaxSenders
\* Sender::from_usize(usize::MAX): no client has it.
ReservedSender == MaxSenders + 1
\* The page the log server's Tx buffer occupies: the top page of bank 0.
ReservedPage == IframPages - 1

\* size in pages, rounded up.
PagesOf(size) == size \div IFRAM_PAGE + (IF size % IFRAM_PAGE # 0 THEN 1 ELSE 0)

\* The `for (index, page) in ifram_allocs.iter().enumerate()` loop of
\* try_alloc from `index` on; st = [free_start, found_len, broke].
RECURSIVE AllocSearch(_, _, _, _)
AllocSearch(table, size_pages, index, st) ==
    IF index >= Len(table) \/ st.broke THEN st
    ELSE IF table[index + 1] # None THEN
        AllocSearch(table, size_pages, index + 1,
                    [st EXCEPT !.free_start = None, !.found_len = 0])
    ELSE IF st.free_start # None THEN
        AllocSearch(table, size_pages, index + 1,
                    [st EXCEPT !.found_len = st.found_len + 1,
                               !.broke = (st.found_len + 1 >= size_pages)])
    ELSE
        AllocSearch(table, size_pages, index + 1,
                    [st EXCEPT !.free_start = <<index>>, !.found_len = 1])

\* try_alloc: the table it leaves, what it returns (None or <<offset>>) and
\* the panic it raised, with the values its assertion compares.
try_alloc(table, size, sender) ==
    LET size_pages == PagesOf(size)
        st == AllocSearch(table, size_pages, 0,
                          [free_start |-> None, found_len |-> 0, broke |-> FALSE])
        out == [ before |-> table, table |-> table, ret |-> None, panic |-> "",
                 size_pages |-> size_pages, found_len |-> st.found_len,
                 free_start |-> st.free_start, sender |-> sender ]
    IN  IF st.free_start # None /\ st.found_len >= size_pages
        THEN IF st.found_len # size_pages
             THEN [out EXCEPT !.panic =
                      "Found pages should be exactly equal to size_pages at this point"]
             ELSE [out EXCEPT
                     !.table = [ i \in 1..Len(table) |->
                                   IF i - 1 \in st.free_start[1]..(st.free_start[1] + st.found_len - 1)
                                   THEN <<sender>> ELSE table[i] ],
                     !.ret = <<st.free_start[1] * IFRAM_PAGE>>]
        ELSE out

\* Opcode::MapIfram: the banks the request names are tried in order; the
\* reply is <<size, address>>, or <<0, 0>> when nothing could be allocated.
\* `calls` are the try_alloc calls made.
MapIfram(tables, requested_size, requested_bank, sender) ==
    LET try0 == requested_bank = 0 \/ requested_bank > 1
        try1 == requested_bank = 1 \/ requested_bank > 1
        r0 == try_alloc(tables[1], requested_size, sender)
        r1 == try_alloc(tables[2], requested_size, sender)
    IN  IF try0 /\ r0.panic # ""
        THEN [tables |-> tables, reply |-> <<0, 0>>, panic |-> r0.panic, calls |-> <<r0>>]
        ELSE IF try0 /\ r0.ret # None
        THEN [tables |-> <<r0.table, tables[2]>>,
              reply |-> <<requested_size, HW_IFRAM0_MEM + r0.ret[1]>>,
              panic |-> "", calls |-> <<r0>>]
        ELSE IF try1 /\ r1.panic # ""
        THEN [tables |-> tables, reply |-> <<0, 0>>, panic |-> r1.panic,
              calls |-> IF try0 THEN <<r0, r1>> ELSE <<r1>>]
        ELSE IF try1 /\ r1.ret # None
        THEN [tables |-> <<tables[1], r1.table>>,
              reply |-> <<requested_size, HW_IFRAM1_MEM + r1.ret[1]>>,
              panic |-> "", calls |-> IF try0 THEN <<r0, r1>> ELSE <<r1>>]
        ELSE [tables |-> tables, reply |-> <<0, 0>>, panic |-> "",
              calls |-> (IF try0 THEN <<r0>> ELSE <<>>) \o (IF try1 THEN <<r1>> ELSE <<>>)]

\* Opcode::UnmapIfram: the bank and the offset are taken from the address,
\* and table[offset..offset + mapped_pages] is set to None; the slice panics
\* when it does not lie inside the table.
UnmapIfram(tables, mapped_size, phys_addr) ==
    LET in0 == HW_IFRAM0_MEM <= phys_addr /\ phys_addr < HW_IFRAM0_MEM + HW_IFRAM0_MEM_LEN
        in1 == HW_IFRAM1_MEM <= phys_addr /\ phys_addr < HW_IFRAM1_MEM + HW_IFRAM1_MEM_LEN
        bank == IF in0 THEN 0 ELSE 1
        offset == IF in0 THEN phys_addr - HW_IFRAM0_MEM ELSE phys_addr - HW_IFRAM1_MEM
        mapped_pages == PagesOf(mapped_size)
    IN  IF ~in0 /\ ~in1
        THEN [tables |-> tables, panic |-> "Mapped IFRAM address is invalid"]
        ELSE IF offset + mapped_pages > Len(tables[bank + 1])
        THEN [tables |-> tables, panic |-> "range end index out of range for slice"]
        ELSE [tables |-> [tables EXCEPT ![bank + 1] =
                            [ i \in 1..Len(@) |->
                                IF i - 1 \in offset..(offset + mapped_pages - 1)
                                THEN None ELSE @[i] ]],
              panic |-> ""]

\* The requests the model sends: sizes of 0 to 3 pages, exact and not.
RequestSizes == {0, IFRAM_PAGE, IFRAM_PAGE + 1, 3 * IFRAM_PAGE}
\* Bank 0, bank 1, don't care.
RequestBanks == {0, 1, 2}
\* The start of every page of both banks, an address inside a page, and one
\* outside both banks.
UnmapAddrs ==
    { HW_IFRAM0_MEM + p * IFRAM_PAGE : p \in 0..(2 * IframPages - 1) }
    \cup {HW_IFRAM0_MEM + 1, HW_IFRAM1_MEM + HW_IFRAM1_MEM_LEN}

NoHalLog ==
    [ op |-> "none", size |-> 0, arg |-> 0, sender |-> 0, reply |-> <<0, 0>>,
      calls |-> <<>>, before |-> <<>>,
      prevOp |-> "none", prevReply |-> <<0, 0>>, prevBefore |-> <<>> ]

\* Before the service has started: `[Vec::new(), Vec::new()]`.
HalOff ==
    /\ ifram_allocs = <<<<>>, <<>>>>
    /\ halPanic = ""
    /\ halLog = NoHalLog
    /\ halOps = 0

\* main, lines 69-80: every page of both banks free, except the top page of
\* bank 0.
HalNew ==
    /\ ifram_allocs = << [ i \in 1..IframPages |->
                             IF i - 1 = ReservedPage THEN <<ReservedSender>> ELSE None ],
                         [ i \in 1..IframPages |-> None ] >>
    /\ halPanic = ""
    /\ halLog = NoHalLog
    /\ halOps = 0

HalMapIfram ==
    /\ halPanic = ""
    /\ halOps < MaxHalOps
    /\ \E size \in RequestSizes, bank \in RequestBanks, sender \in Senders :
         \E r \in {MapIfram(ifram_allocs, size, bank, sender)} :
            /\ ifram_allocs' = r.tables
            /\ halPanic' = r.panic
            /\ halLog' = [ op |-> "MapIfram", size |-> size, arg |-> bank, sender |-> sender,
                           reply |-> r.reply, calls |-> r.calls, before |-> ifram_allocs,
                           prevOp |-> halLog.op, prevReply |-> halLog.reply,
                           prevBefore |-> halLog.before ]
    /\ halOps' = halOps + 1
    /\ UNCHANGED <<loaderVars, kernelVars, trngVars>>

HalUnmapIfram ==
    /\ halPanic = ""
    /\ halOps < MaxHalOps
    /\ \E size \in RequestSizes, addr \in UnmapAddrs :
         \E r \in {UnmapIfram(ifram_allocs, size, addr)} :
            /\ ifram_allocs' = r.tables
            /\ halPanic' = r.panic
            /\ halLog' = [ op |-> "UnmapIfram", size |-> size, arg |-> addr, sender |-> 0,
                           reply |-> <<0, 0>>, calls |-> <<>>, before |-> ifram_allocs,
                           prevOp |-> halLog.op, prevReply |-> halLog.reply,
                           prevBefore |-> halLog.before ]
    /\ halOps' = halOps + 1
    /\ UNCHANGED <<loaderVars, kernelVars, trngVars>>

HalNext == HalMapIfram \/ HalUnmapIfram


\* Before the loader has started the kernel.
KernelOff ==
    /\ sim = 0
    /\ SIM_BACKING = 0
    /\ PREVIOUS_PAIR = None
    /\ alive = {}
    /\ curPid = 1
    /\ curTid = [p \in PIDs |-> INITIAL_TID]
    /\ threads = [p \in PIDs |-> {}]
    /\ excFrom = [p \in PIDs |-> None]
    /\ isrFrom = None
    /\ sepc = [p \in PIDs |-> [t \in TIDs |-> 0]]
    /\ present = [p \in PIDs |-> {}]
    /\ switchto = None
    /\ handlerReg = {}
    /\ irqOwner = [i \in Irqs |-> 0]
    /\ halted = ""
    /\ last = NoLast
    /\ maskLog = NoMaskLog
    /\ traps = 0
    /\ overflowChecks = "unknown"

\* The loader, from reset to the jump into the kernel.
LoaderInit == InitLoader /\ KernelOff /\ TrngNew /\ HalOff

LoaderSpec == LoaderInit /\ [][LoaderNext]_vars

\* What a cold boot of an untampered image leaves behind when it jumps into
\* the kernel (the last state of the loader for that image).
ColdBooted ==
    LET c0 == [DefaultBootConfig EXCEPT !.base_addr = "args.base", !.args = GoodArgs]
        c1 == read_initial_config(c0, GoodArgs).cfg
        start == c1.sram_start + c1.sram_size - PAGE_SIZE
        c2 == [c1 EXCEPT !.init_size = PAGE_SIZE,
                         !.args_base = start,
                         !.runtime_page_tracker_ptr = start + WORD_SIZE,
                         !.processes_ptr = start + 2 * WORD_SIZE]
        p0 == [satp |-> 2 ^ (SatpBits - 1) + 2 ^ SatpPpnBits + 1,
               entrypoint |-> KERNEL_ARGUMENT_OFFSET + PAGE_SIZE,
               sp |-> KERNEL_ARGUMENT_OFFSET - WORD_SIZE]
        mem0 == RamWith(WordMax, [ o \in 0..(WORDS_PER_PAGE - 1) |-> 0 ])
        mem1 == clear_ram(mem0, c1)
        backup == <<KERNEL_ARGUMENT_OFFSET, KERNEL_ARGUMENT_OFFSET + 2 * WORD_SIZE,
                    KERNEL_ARGUMENT_OFFSET + WORD_SIZE, p0.satp, p0.entrypoint, p0.sp,
                    IF c2.debug THEN 1 ELSE 0>>
    IN  /\ feat = [secboot |-> FALSE, resume |-> FALSE, simulation_only |-> FALSE]
        /\ seeds = <<0, WordMax>>
        /\ region = SignedRegion
        /\ signed = SignedRegion
        /\ lpc = "kernel"
        /\ cfg = c2
        /\ ram0 = mem0
        /\ ram = [ a \in DOMAIN mem1 |->
                     IF a \in BackupAddr(0)..BackupAddr(6)
                     THEN backup[a - BackupAddr(0) + 1] ELSE mem1[a] ]
        /\ written = ClearedAddrs(c1) \cup (BackupAddr(0)..BackupAddr(6))
        /\ resumeInfo = [clean |-> FALSE, was_forced_suspend |-> FALSE, pid |-> 0, examined |-> <<>>]
        /\ pageTables = "phase2"
        /\ procs0 = p0
        /\ kernelArgs = [arg_offset |-> backup[1], ip_offset |-> backup[2],
                         rpt_offset |-> backup[3], satp |-> p0.satp,
                         entrypoint |-> p0.entrypoint, sp |-> p0.sp,
                         debug |-> c2.debug, clean |-> FALSE]
        /\ csr = [power_state |-> 0, power_self |-> 0, uart_rx |-> 0, susres_state |-> {},
                  pause |-> 0, soft_int |-> 0, interrupt |-> 0, uartsel |-> 1]
        /\ loaderPanic = ""
        /\ boots = 0
        /\ lastCold = kernelArgs
        /\ markerChecks = <<>>

\* The kernel, from the moment the loader has started it.
Init == ColdBooted /\ sim = 0 /\ KernelBooted /\ TrngNew /\ HalOff

Spec == Init /\ [][Next]_vars

(***************************************************************************)
(* The mask primitives on their own, called in any order.                  *)
(***************************************************************************)
MaskFrame ==
    UNCHANGED <<loaderVars, trngVars, halVars, PREVIOUS_PAIR, alive, curPid, curTid, threads, excFrom,
                isrFrom, sepc, present, switchto, handlerReg, irqOwner, halted, last,
                traps, overflowChecks>>

DisableAllIrqs ==
    /\ sim' = disable_all_irqs(sim, SIM_BACKING)[1]
    /\ SIM_BACKING' = disable_all_irqs(sim, SIM_BACKING)[2]
    /\ maskLog' = LogMask(maskLog, "disable_all_irqs", sim)
    /\ MaskFrame

EnableAllIrqs ==
    /\ sim' = enable_all_irqs(sim, SIM_BACKING)[1]
    /\ SIM_BACKING' = enable_all_irqs(sim, SIM_BACKING)[2]
    /\ maskLog' = LogMask(maskLog, "enable_all_irqs", sim)
    /\ MaskFrame

EnableIrq ==
    /\ \E irq_no \in Irqs : sim' = enable_irq(sim, irq_no)
    /\ maskLog' = LogMask(maskLog, "enable_irq", sim)
    /\ UNCHANGED SIM_BACKING
    /\ MaskFrame

DisableIrq ==
    /\ \E irq_no \in Irqs : sim' = disable_irq(sim, irq_no)
    /\ maskLog' = LogMask(maskLog, "disable_irq", sim)
    /\ UNCHANGED SIM_BACKING
    /\ MaskFrame

MaskNext == DisableAllIrqs \/ EnableAllIrqs \/ EnableIrq \/ DisableIrq

MaskInit == ColdBooted /\ sim \in Masks /\ KernelBooted /\ TrngNew /\ HalOff

MaskSpec == MaskInit /\ [][MaskNext]_vars

(***************************************************************************)
(* The loader over several boots: SRAM is battery-backed and keeps its     *)
(* content across a reset; the kernel's suspend writes the suspend marker. *)
(***************************************************************************)
\* The machine is followed for MaxBoots resets after it was first powered.
MaxBoots == 2

\* A reset, at any point after rust_entry was entered: the loader starts
\* again on the SRAM as it is, with whatever the seed registers now hold.
Reboot ==
    /\ lpc # "rust_entry"
    /\ boots < MaxBoots
    /\ boots' = boots + 1
    /\ lpc' = "rust_entry"
    /\ cfg' = DefaultBootConfig
    /\ ram0' = ram
    /\ written' = {}
    /\ seeds' \in SeedPairs
    /\ resumeInfo' = [clean |-> FALSE, was_forced_suspend |-> FALSE, pid |-> 0, examined |-> <<>>]
    /\ pageTables' = "none"
    /\ procs0' = [satp |-> 0, entrypoint |-> 0, sp |-> 0]
    /\ kernelArgs' = <<>>
    /\ csr' = [power_state |-> 0, power_self |-> 0, uart_rx |-> 0, susres_state |-> {},
               pause |-> 0, soft_int |-> 0, interrupt |-> 0, uartsel |-> 0]
    /\ loaderPanic' = ""
    /\ UNCHANGED <<feat, signed, region, ram, lastCold, markerChecks>>
    /\ UNCHANGED <<kernelVars, trngVars, halVars>>

\* The running system suspends (the susres service): it writes a marker whose sectors hash correctly
\* for the seeds sd, with the forced flag f and the service's pid p.  The
\* page reserved for the loader's stack, the snapshot included, is not the
\* kernel's to write.
Suspend ==
    /\ lpc = "kernel"
    /\ feat.resume
    /\ \E sd \in SeedPairs, f \in {0, 1}, p \in Word :
         ram' = [ a \in DOMAIN ram |->
                    IF a \in MarkerAddrs(TrueSram)
                    THEN CleanMarker(sd, f, p, 0)[a - SuspendMarker(TrueSram)]
                    ELSE ram[a] ]
    /\ markerChecks' = <<>>
    /\ lpc' = "suspended"
    /\ UNCHANGED <<boots, lastCold>>
    /\ UNCHANGED <<feat, signed, region, cfg, ram0, written, seeds, resumeInfo, pageTables,
                   procs0, kernelArgs, csr, loaderPanic>>
    /\ UNCHANGED <<kernelVars, trngVars, halVars>>

RebootNext ==
    \/ RustEntry
    \/ BootReadConfig
    \/ CheckResume
    \/ ColdClearRam
    \/ Phase1
    \/ Phase2
    \/ StartKernelCold
    \/ ResumeKernel
    \/ Suspend
    \/ Reboot

\* First power-on: an untampered image whose arguments ask for debug or not,
\* on SRAM that holds no marker or a marker an earlier suspend left.
RebootInit ==
    /\ LoaderIdle
    /\ feat \in { f \in Features : ~f.secboot }
    /\ seeds \in SeedPairs
    /\ region \in { SignedRegion,
                     [SignedRegion EXCEPT !.args = Append(GoodArgs, Tag("Bflg", 4, <<4>>))] }
    /\ signed = region
    /\ \E fill \in {0, WordMax},
          m \in { [ o \in 0..(WORDS_PER_PAGE - 1) |-> 0 ], CleanMarker(seeds, 1, WordMax, 0) } :
         ram = RamWith(fill, m)
    /\ ram0 = ram
    /\ KernelOff
    /\ TrngNew
    /\ HalOff

RebootSpec == RebootInit /\ [][RebootNext]_vars

(***************************************************************************)
(* The resume branch on its own: check_resume has just found a clean       *)
(* marker, and the saved root translation pointer and the pid in the       *)
(* marker are any words of SatpBits bits.                                  *)
(***************************************************************************)
SatpWords == 0..(2 ^ SatpBits - 1)

ResumeInit ==
    /\ feat = [secboot |-> FALSE, resume |-> TRUE, simulation_only |-> FALSE]
    /\ region = SignedRegion
    /\ signed = region
    /\ lpc = "resume_path"
    /\ cfg = read_initial_config([DefaultBootConfig EXCEPT !.base_addr = "args.base",
                                                          !.args = GoodArgs], GoodArgs).cfg
    /\ seeds = <<0, WordMax>>
    /\ \E saved \in SatpWords, pid \in SatpWords, f \in {0, 1} :
          ram0 = [RamWith(0, CleanMarker(seeds, f, pid, 0)) EXCEPT ![BackupAddr(3)] = saved]
    /\ resumeInfo = check_resume_result(ram0, cfg, seeds)
    /\ ram = ZeroMarker(ram0, cfg)
    /\ written = MarkerAddrs(cfg)
    /\ pageTables = "none"
    /\ procs0 = [satp |-> 0, entrypoint |-> 0, sp |-> 0]
    /\ kernelArgs = <<>>
    /\ csr = [power_state |-> 0, power_self |-> 0, uart_rx |-> 0, susres_state |-> {},
              pause |-> 0, soft_int |-> 0, interrupt |-> 0, uartsel |-> 0]
    /\ loaderPanic = ""
    /\ boots = 0
    /\ lastCold = <<>>
    /\ markerChecks = <<TRUE>>
    /\ KernelOff
    /\ TrngNew
    /\ HalOff

ResumeNext == ResumeKernel

ResumeSpec == ResumeInit /\ [][ResumeNext]_vars

(***************************************************************************)
(* read_initial_config on its own: applied to a fresh BootConfig and then  *)
(* again to the BootConfig it produced.                                    *)
(***************************************************************************)
ParseInit ==
    /\ feat = [secboot |-> FALSE, resume |-> FALSE, simulation_only |-> FALSE]
    /\ region \in [body : {0}, args : ArgStreams]
    /\ signed = region
    /\ lpc = "unparsed"
    /\ cfg = [DefaultBootConfig EXCEPT !.base_addr = "args.base", !.args = region.args]
    /\ ram = RamWith(WordMax, [ o \in 0..(WORDS_PER_PAGE - 1) |-> 0 ])
    /\ ram0 = ram
    /\ written = {}
    /\ seeds = <<0, WordMax>>
    /\ resumeInfo = [clean |-> FALSE, was_forced_suspend |-> FALSE, pid |-> 0, examined |-> <<>>]
    /\ pageTables = "none"
    /\ procs0 = [satp |-> 0, entrypoint |-> 0, sp |-> 0]
    /\ kernelArgs = <<>>
    /\ csr = [power_state |-> 0, power_self |-> 0, uart_rx |-> 0, susres_state |-> {},
              pause |-> 0, soft_int |-> 0, interrupt |-> 0, uartsel |-> 0]
    /\ loaderPanic = ""
    /\ boots = 0
    /\ lastCold = <<>>
    /\ markerChecks = <<>>
    /\ KernelOff
    /\ TrngNew
    /\ HalOff

ReadInitialConfig ==
    /\ lpc \in {"unparsed", "parsed_once"}
    /\ \E r \in {read_initial_config(cfg, cfg.args)} :
         IF r.panic # ""
         THEN /\ lpc' = "panic"
              /\ loaderPanic' = r.panic
              /\ cfg' = r.cfg
         ELSE /\ lpc' = IF lpc = "unparsed" THEN "parsed_once" ELSE "parsed_twice"
              /\ loaderPanic' = loaderPanic
              /\ cfg' = r.cfg
    /\ UNCHANGED <<boots, lastCold, markerChecks>>
    /\ UNCHANGED <<feat, signed, region, ram, ram0, written, seeds, resumeInfo,
                   pageTables, procs0, kernelArgs, csr>>
    /\ UNCHANGED <<kernelVars, trngVars, halVars>>

ParseNext == ReadInitialConfig

ParseSpec == ParseInit /\ [][ParseNext]_vars

(***************************************************************************)
(* The entropy-source controller on its own, called in any order.          *)
(***************************************************************************)
TrngInit == ColdBooted /\ sim = 0 /\ KernelBooted /\ TrngNew /\ HalOff

TrngSpec == TrngInit /\ [][TrngNext]_vars

\* The same with a peripheral that eventually has a word ready after each
\* read, and a processor that keeps running the busy-wait loop.
TrngFairSpec ==
    TrngInit /\ [][TrngNext]_vars /\ WF_vars(TrngHwReady) /\ WF_vars(TrngGetU32Ready)

(***************************************************************************)
(* The HAL service on its own, serving IFRAM requests in any order.        *)
(***************************************************************************)
HalInit == ColdBooted /\ sim = 0 /\ KernelBooted /\ TrngNew /\ HalNew

HalSpec == HalInit /\ [][HalNext]_vars

(***************************************************************************)
(***************************************************************************)
(* Properties                                                              *)
(***************************************************************************)
(***************************************************************************)
\* The last trap made the call `name`.
Did(name) == \E i \in 1..Len(last.steps) : last.steps[i] = name

\* The last trap was an exception that trap_handler does not know (it got
\* past the match of lines 186-272), or the supervisor store fault of lines
\* 131-139.
UnrecognizedException == last.unrecognized \/ last.class = "kernel_stack"

\* The argument stream has no XKrn tag, or neither an IniE nor an IniF tag.
LacksKernelOrInit(tags) ==
    \/ \A i \in 1..Len(tags) : tags[i].name # "XKrn"
    \/ \A i \in 1..Len(tags) : tags[i].name \notin {"IniE", "IniF"}

\* C1: with secure boot enabled and a signed region that validate_xous_img
\* rejects, the loader gets no further than rust_entry's infinite loop: the
\* arguments are never parsed, check_resume, clear_ram, phase_1 and phase_2
\* never run (no word of RAM is written, no page table exists), and the
\* kernel is never started.
C1_SecbootRejectHalts ==
    (feat.secboot /\ ~validate_xous_img(region, signed)) =>
        /\ lpc \in {"rust_entry", "halt"}
        /\ cfg = DefaultBootConfig
        /\ resumeInfo = [clean |-> FALSE, was_forced_suspend |-> FALSE, pid |-> 0, examined |-> <<>>]
        /\ written = {}
        /\ ram = ram0
        /\ pageTables = "none"
        /\ kernelArgs = <<>>
        /\ loaderPanic = ""

\* C1 witness: secure boot, only the kernel-argument block differs from what
\* was signed, and rust_entry has reached its infinite loop.
C1_Witness ==
    /\ feat.secboot
    /\ region.body = signed.body
    /\ region.args # signed.args
    /\ lpc = "halt"

\* C2, as claimed: every unrecognized exception taken in supervisor mode ends
\* in a halt, with no thread resumed, no userspace handler invoked and no
\* process terminated.
C2_KernelFaultAlwaysHalts ==
    (UnrecognizedException /\ last.spp = "Supervisor") =>
        /\ last.outcomes = <<"halt">>
        /\ halted # ""
        /\ last.resumed = None
        /\ ~Did("invoke")
        /\ last.terminated = {}

AdjustPanic ==
    IF overflowChecks = "on" THEN AdjustSepc(last.sepcBefore, last.a0, TRUE).panic ELSE ""

C5_ExactlyOneOutcome ==
    last.class # "none" =>
        /\ Len(last.outcomes) = 1
        /\ last.outcomes[1] \in {"resume", "return_result", "halt"}
        /\ (last.outcomes[1] = "halt") = (halted # "")
        /\ (last.outcomes[1] # "halt") = (last.resumed # None)

\* C5 witness: a syscall that failed to decode, ended by the one
\* return-with-result it reaches.
C5_Witness ==
    /\ last.class = "syscall"
    /\ ~last.decodes
    /\ last.outcomes = <<"return_result">>

\* C6: at most one pair is recorded; once a RETURN_FROM_ISR marker has been
\* processed PREVIOUS_PAIR is None and stays None until a hardware interrupt,
\* and a RETURN_FROM_ISR marker met in that condition panics with "got
\* RETURN_FROM_ISR with no previous PID" and resumes nothing.
C6_IsrPairConsumedOnce ==
    /\ PREVIOUS_PAIR = None \/ (Len(PREVIOUS_PAIR) = 2 /\ PREVIOUS_PAIR[1] \in PIDs)
    /\ last.class = "return_from_isr" => PREVIOUS_PAIR = None
    /\ last.isrReturned => PREVIOUS_PAIR = None
    /\ (last.class = "return_from_isr" /\ last.stale) =>
          /\ last.pair = None
          /\ last.outcomes = <<"halt">>
          /\ halted = "got RETURN_FROM_ISR with no previous PID"
          /\ last.resumed = None

\* C6 witness: a second RETURN_FROM_ISR marker with no interrupt since the
\* first one was processed.
C6_Witness ==
    /\ last.class = "return_from_isr"
    /\ last.stale
    /\ halted = "got RETURN_FROM_ISR with no previous PID"

\* C7, as claimed: a syscall whose arguments do not decode returns
\* Error(UnhandledSyscall) to the current thread, without calling the syscall
\* handler or terminating the process, and the thread's saved registers, its
\* saved pc included, are what they were at trap entry.
C7_DecodeFailureLeavesRegisters ==
    (last.class = "syscall" /\ ~last.decodes) =>
        /\ last.outcomes = <<"return_result">>
        /\ last.result = "Error(UnhandledSyscall)"
        /\ ~Did("syscall::handle")
        /\ last.terminated = {}
        /\ last.resumed = <<last.pid, last.tid, last.epc>>

\* C7, amended: a syscall whose arguments do not decode returns
\* Error(UnhandledSyscall) to the current thread, without calling the syscall
\* handler or terminating the process; of the thread's saved state only sepc
\* changes, advanced by 4 past the ecall, whatever the arguments were.
C7_DecodeFailureAdvancesPcOnly ==
    (last.class = "syscall" /\ ~last.decodes) =>
        /\ last.outcomes = <<"return_result">>
        /\ last.result = "Error(UnhandledSyscall)"
        /\ ~Did("syscall::handle")
        /\ last.terminated = {}
        /\ alive = last.aliveBefore
        /\ PREVIOUS_PAIR = last.pair
        /\ curPid = last.pid
        /\ curTid[curPid] = last.tid
        /\ last.resumed = <<last.pid, last.tid, Wrap(last.epc + 4)>>

\* C7 witness: a user thread's syscall failed to decode.
C7_Witness ==
    /\ last.class = "syscall"
    /\ ~last.decodes
    /\ last.spp = "User"
    /\ last.result = "Error(UnhandledSyscall)"

\* C8: when a load or store page fault at a lazily-backed address is handled
\* successfully, the page is present for the faulting process, the faulting
\* thread is resumed at the faulting instruction, and a page stays present for
\* as long as its process exists, so the re-executed access does not fault on
\* that address again.
C8_DemandPageStable ==
    /\ [](  (last.class = "page_fault" /\ last.ensured) =>
              /\ last.tval \in present[last.pid]
              /\ last.outcomes = <<"resume">>
              /\ last.resumed = <<last.pid, last.tid, last.epc>>
              /\ curPid = last.pid
              /\ curTid[curPid] = last.tid )
    /\ [][ /\ \A p \in alive' : present[p] \subseteq present'[p]
           /\ last'.class = "page_fault" => last'.tval \notin present[last'.pid] ]_vars

\* C8 witness: a user thread's page fault at the lazily-backed address was
\* served and the thread resumed.
C8_Witness ==
    /\ last.class = "page_fault"
    /\ last.spp = "User"
    /\ last.ensured
    /\ last.tval = "lazy"
    /\ "lazy" \in present[last.pid]
    /\ last.outcomes = <<"resume">>

\* C9: right after disable_all_irqs the mask register is 0, and when
\* enable_all_irqs is the next mask operation after disable_all_irqs the mask
\* register is again what it was immediately before the disable_all_irqs.
C9_DisableEnableRoundTrip ==
    /\ maskLog.op = "disable_all_irqs" => sim = 0
    /\ (maskLog.op = "enable_all_irqs" /\ maskLog.prev = "disable_all_irqs") =>
          sim = maskLog.prevBefore

\* C9 witness: a round trip that started from the mask with every line
\* enabled.
C9_Witness ==
    /\ maskLog.op = "enable_all_irqs"
    /\ maskLog.prev = "disable_all_irqs"
    /\ maskLog.prevBefore = 2 ^ NumIrqs - 1
    /\ sim = 2 ^ NumIrqs - 1

\* C10: when the argument stream has no XKrn tag or no IniE/IniF tag, the
\* loader gets no further than the panic of read_initial_config: check_resume,
\* clear_ram, phase_1 and phase_2 have not run, and no word of RAM or of the
\* suspend marker has been written.
C10_MissingTagsPanicBeforeWrites ==
    LacksKernelOrInit(region.args) =>
        /\ lpc \in {"rust_entry", "halt", "boot_sequence", "panic"}
        /\ lpc = "panic" => loaderPanic # ""
        /\ cfg = DefaultBootConfig
        /\ resumeInfo = [clean |-> FALSE, was_forced_suspend |-> FALSE, pid |-> 0, examined |-> <<>>]
        /\ written = {}
        /\ ram = ram0
        /\ pageTables = "none"
        /\ kernelArgs = <<>>

\* C10 witness: a resume-capable loader given a stream with a kernel but no
\* initial process has panicked in read_initial_config.
C10_Witness ==
    /\ feat.resume
    /\ LacksKernelOrInit(region.args)
    /\ \E i \in 1..Len(region.args) : region.args[i].name = "XKrn"
    /\ lpc = "panic"
    /\ loaderPanic = "no initial programs found"

(***************************************************************************)
(* read_initial_config                                                     *)
(***************************************************************************)
\* The BootConfig contents argument parsing decides.
BootConfigContents(c) ==
    <<c.sram_start, c.sram_size, c.regions, c.no_copy, c.base_addr, c.debug,
      c.init_process_count>>

\* C11: applying read_initial_config again to the BootConfig the first parse
\* of a well-formed stream produced leaves sram_start, sram_size, regions,
\* no_copy, base_addr, debug and init_process_count as the first parse left
\* them.
C11_ReparseIdentical ==
    [][ lpc = "parsed_once" /\ lpc' = "parsed_twice"
          => BootConfigContents(cfg') = BootConfigContents(cfg) ]_vars

\* Some Bflg tag of the stream has bit b of its flags word set.
SomeBflgHasBit(tags, b) ==
    \E i \in 2..Len(tags) : tags[i].name = "Bflg" /\ BitSet(tags[i].data[1], b)

\* C12: after read_initial_config accepted a stream, sram_start and sram_size
\* are words 2 and 3 of the XArg payload, no_copy is set iff some Bflg tag has
\* bit 0, debug iff some Bflg tag has bit 2, and base_addr is null iff some
\* Bflg tag has bit 1 and is otherwise what it was given as.
C12_ParsedFieldsFollowTags ==
    lpc = "parsed_once" =>
        /\ cfg.sram_start = cfg.args[1].data[3]
        /\ cfg.sram_size = cfg.args[1].data[4]
        /\ cfg.no_copy <=> SomeBflgHasBit(cfg.args, 0)
        /\ cfg.debug <=> SomeBflgHasBit(cfg.args, 2)
        /\ cfg.base_addr = IF SomeBflgHasBit(cfg.args, 1) THEN "null" ELSE "args.base"
        /\ cfg.args = region.args

C12_Witness ==
    /\ lpc = "parsed_once"
    /\ ~cfg.no_copy
    /\ cfg.base_addr = "null"
    /\ ~cfg.debug
    /\ cfg.sram_start = SramStart
    /\ cfg.sram_size = SramSize

(***************************************************************************)
(* check_resume                                                            *)
(***************************************************************************)
\* Offsets in the marker page of the words check_resume replaces by the seed
\* registers before hashing (hashbuf[1] and hashbuf[2] of sector 0).
PatchedOffsets == {1, 2}

\* The markers one word away from the marker this boot started with, as
\* <<offset, value>>, that check_resume would have reported clean.
CleanNeighbours ==
    { ov \in ((0..(WORDS_PER_PAGE - 1)) \ PatchedOffsets) \X Word :
        /\ ov[2] # ram0[SuspendMarker(cfg) + ov[1]]
        /\ check_resume_result([ram0 EXCEPT ![SuspendMarker(cfg) + ov[1]] = ov[2]],
                               cfg, seeds).clean }

\* C13: a marker that differs in one word, other than the two seed words,
\* from a marker check_resume reports clean is reported not clean.
C13_SingleWordCorruptionDetected ==
    (Len(markerChecks) = 1 /\ boots = 0 /\ CleanNeighbours # {}) => ~resumeInfo.clean

C13_Witness ==
    /\ Len(markerChecks) = 1
    /\ boots = 0
    /\ \E ov \in CleanNeighbours : ov[1] = WORDS_PER_PAGE - 2
    /\ ~resumeInfo.clean
    /\ lpc = "cold_boot"

\* C14: every check_resume leaves all words of the marker page zero, whatever
\* it reported, and as long as nothing rewrites the marker every later
\* check_resume reports not clean, whatever the seed registers hold, so the
\* boot it belongs to is a cold boot.
C14_MarkerIsSingleUse ==
    /\ Len(markerChecks) >= 1 =>
          \A o \in 0..(WORDS_PER_PAGE - 1) : ram[SuspendMarker(TrueSram) + o] = 0
    /\ \A i \in 2..Len(markerChecks) : ~markerChecks[i]
    /\ Len(markerChecks) >= 2 =>
          /\ ~resumeInfo.clean
          /\ lpc # "resume_path"
          /\ kernelArgs # <<>> => ~kernelArgs.clean

C14_Witness ==
    /\ markerChecks = <<TRUE, FALSE>>
    /\ lpc = "cold_boot"
    /\ seeds[1] + seeds[2] = WordMax

(***************************************************************************)
(* clear_ram and the two boot paths                                        *)
(***************************************************************************)
\* The builds in which the cold path calls clear_ram.
RamClearEnabled == feat.resume \/ ~feat.simulation_only

\* The words of [sram_start, sram_start + sram_size - 8192).
BelowStack ==
    { a \in RamAddrs :
        /\ a * WORD_SIZE >= cfg.sram_start
        /\ a * WORD_SIZE < cfg.sram_start + cfg.sram_size - STACK_RESERVED }

\* C15: on a cold boot of a build that clears RAM, when phase_1 begins every
\* word of SRAM below the top 8192 bytes (the loader's stack) is zero,
\* whatever SRAM held before the boot.
C15_ColdBootClearsRam ==
    (lpc = "phase_1" /\ RamClearEnabled) => \A a \in BelowStack : ram[a] = 0

C15_Witness ==
    /\ lpc = "phase_1"
    /\ RamClearEnabled
    /\ ram0[cfg.sram_start \div WORD_SIZE] # 0
    /\ \E a \in RamAddrs \ BelowStack : ram[a] # 0
    /\ BelowStack # {}

\* C16: when check_resume reported clean the boot goes down the resume path
\* only: clear_ram, phase_1 and phase_2 do not run, and up to the jump into
\* the kernel the only SRAM words written are those of the marker page, which
\* check_resume zeroed.
C16_ResumeWritesOnlyMarker ==
    resumeInfo.clean =>
        /\ lpc \in {"resume_path", "kernel"}
        /\ pageTables = "none"
        /\ cfg.init_size = 0
        /\ procs0 = [satp |-> 0, entrypoint |-> 0, sp |-> 0]
        /\ written = MarkerAddrs(cfg)
        /\ \A a \in RamAddrs : ram[a] = IF a \in MarkerAddrs(cfg) THEN 0 ELSE ram0[a]

C16_Witness ==
    /\ resumeInfo.clean
    /\ lpc = "kernel"
    /\ kernelArgs.clean
    /\ \E a \in BelowStack \ MarkerAddrs(cfg) : ram[a] # 0
    /\ \E a \in MarkerAddrs(cfg) : ram0[a] # 0

(***************************************************************************)
(* The backup-argument snapshot                                            *)
(***************************************************************************)
\* The seven words at BACKUP_ARGS_ADDR.
Snapshot(mem) == [ i \in 0..6 |-> mem[BackupAddr(i)] ]

\* The seven words a cold boot that called start_kernel with `a` leaves.
SnapshotOf(a) ==
    [ i \in 0..6 |->
        IF i = 0 THEN a.arg_offset
        ELSE IF i = 1 THEN a.ip_offset
        ELSE IF i = 2 THEN a.rpt_offset
        ELSE IF i = 3 THEN a.satp
        ELSE IF i = 4 THEN a.entrypoint
        ELSE IF i = 5 THEN a.sp
        ELSE IF a.debug THEN 1 ELSE 0 ]

\* C17: the snapshot changes only in the step of a cold boot that follows
\* phase_2 and ends in start_kernel; neither the resume path nor clear_ram
\* writes it, so from the first cold boot on, and across resets, it holds
\* what the most recent cold boot passed to start_kernel.
C17_SnapshotWrittenOnlyByColdBoot ==
    /\ [](lastCold # <<>> => Snapshot(ram) = SnapshotOf(lastCold))
    /\ [][ Snapshot(ram') # Snapshot(ram) =>
             /\ lpc = "jump"
             /\ pageTables = "phase2"
             /\ ~resumeInfo.clean
             /\ lpc' = "kernel"
             /\ ~kernelArgs'.clean
             /\ lastCold' = kernelArgs' ]_vars

C17_Witness ==
    /\ boots = 2
    /\ lpc = "kernel"
    /\ kernelArgs.clean
    /\ lastCold # <<>>
    /\ lastCold.debug
    /\ Snapshot(ram) = SnapshotOf(lastCold)
    /\ ram0[BackupAddr(0)] = lastCold.arg_offset

\* The bits of a root translation pointer that are not the process id: the
\* mode bit and the page number.
SatpWithoutPid(satp) ==
    (satp \div (2 ^ (SatpBits - 1))) * (2 ^ (SatpBits - 1)) + (satp % (2 ^ SatpPpnBits))

\* C18: the kernel started by a resume is given the argument offset, process
\* table offset, page-tracker offset, entry point, stack pointer and debug
\* flag that the most recent cold boot gave it; the root translation pointer
\* differs at most in its process-id bits, and clean is true where the cold
\* boot passed false.
C18_ResumeReplaysColdBootArgs ==
    (lpc = "kernel" /\ kernelArgs # <<>> /\ lastCold # <<>>) =>
        IF resumeInfo.clean
        THEN /\ kernelArgs.arg_offset = lastCold.arg_offset
             /\ kernelArgs.ip_offset = lastCold.ip_offset
             /\ kernelArgs.rpt_offset = lastCold.rpt_offset
             /\ kernelArgs.entrypoint = lastCold.entrypoint
             /\ kernelArgs.sp = lastCold.sp
             /\ kernelArgs.debug = lastCold.debug
             /\ SatpWithoutPid(kernelArgs.satp) = SatpWithoutPid(lastCold.satp)
             /\ kernelArgs.clean
             /\ ~lastCold.clean
        ELSE /\ kernelArgs = lastCold
             /\ ~kernelArgs.clean

C18_Witness ==
    /\ lpc = "kernel"
    /\ lastCold # <<>>
    /\ resumeInfo.clean
    /\ kernelArgs.clean
    /\ kernelArgs.debug
    /\ kernelArgs.satp # lastCold.satp
    /\ kernelArgs.entrypoint = lastCold.entrypoint
    /\ kernelArgs.entrypoint # 0

(***************************************************************************)
(* The entropy-source controller                                           *)
(***************************************************************************)
\* The last call was a get_u32 made in raw-generation mode (get_u32 leaves
\* any other mode as it found it).
GetU32InRawMode == trngLog.op = "get_u32" /\ trng.mode = "Raw"

\* C19: in raw-generation mode get_u32 returns nothing but Some(word),
\* however many calls came before; called with no samples remaining it goes
\* through setup_raw_generation(256) and returns with 255 remaining.
C19_RawModeNeverRunsDry ==
    GetU32InRawMode =>
        /\ trngLog.ret \in {"pending", "Some"}
        /\ trngLog.ret = "pending" <=> tpc = "wait"
        /\ trngLog.before = 0 =>
              /\ trngLog.refill
              /\ get_count_remaining(trng) = RefillCount - 1
              /\ trngCsr = setup_raw_generation(TrngNewStruct, RefillCount).csr
        /\ trngLog.before > 0 => ~trngLog.refill

C19_Witness ==
    /\ GetU32InRawMode
    /\ trngLog.ret = "Some"
    /\ tpc = "idle"
    /\ trngLog.n = 2
    /\ trngLog.k = 3
    /\ trngLog.before = 0
    /\ trngLog.refill
    /\ get_count_remaining(trng) = 255

\* C20: setup_raw_generation(n) leaves the mode raw-generation and n samples
\* remaining; a get_u32 that returned a word and found samples remaining
\* left one fewer, so k <= n calls after setup_raw_generation(n) there are
\* n - k, and the count stays within 0..65535 without wrapping.
C20_CountFollowsCalls ==
    /\ trngLog.op = "setup_raw_generation" =>
          /\ trng.mode = "Raw"
          /\ get_count_remaining(trng) = trngLog.arg
    /\ (GetU32InRawMode /\ trngLog.ret = "Some" /\ trngLog.before > 0) =>
          get_count_remaining(trng) = trngLog.before - 1
    /\ (trng.mode = "Raw" /\ tpc = "idle" /\ trngLog.k <= trngLog.n) =>
          get_count_remaining(trng) = trngLog.n - trngLog.k
    /\ get_count_remaining(trng) \in 0..(U16 - 1)
    /\ GetU32InRawMode =>
          get_count_remaining(trng) < (IF trngLog.before = 0 THEN RefillCount ELSE trngLog.before)

C20_Witness ==
    /\ GetU32InRawMode
    /\ trngLog.ret = "Some"
    /\ tpc = "idle"
    /\ trngLog.n = 3
    /\ trngLog.k = 3
    /\ get_count_remaining(trng) = 0

\* C21: get_u32 on a controller that new created and nothing set up returns
\* None at once: it waits for nothing and reads no register, writes none,
\* and leaves the mode uninitialized and the remaining count as new left it.
GetU32Uninit == trngLog.op = "get_u32" /\ trng.mode = "Uninit"

C21_UninitGetU32ReturnsNone ==
    /\ GetU32Uninit =>
          /\ trngLog.ret = "None"
          /\ tpc = "idle"
          /\ trngLog.reads = {}
          /\ ~trngLog.refill
          /\ trng = TrngNewStruct
          /\ get_count_remaining(trng) = trngLog.before
          /\ trngCsr = CsrAtReset
    \* (every call so far was a get_u32: nothing was ever set up)
    /\ (trngLog.op = "get_u32" /\ trngLog.k = trngOps) => GetU32Uninit

C21_Witness ==
    /\ GetU32Uninit
    /\ trngLog.ret = "None"
    /\ trngLog.k = 2
    /\ trngOps = 2
    /\ bufReady

\* The (pid, tid) handed to the last terminal primitive.
ResumedThread == IF last.resumed = None THEN None ELSE <<last.resumed[1], last.resumed[2]>>

IsrReturnSteps ==
    <<"PREVIOUS_PAIR.take", "finish_callback_and_resume", "enable_all_irqs", "resume">>

IsrReturnWithPair == last.class = "return_from_isr" /\ last.pair # None

\* C22, as claimed: a RETURN_FROM_ISR marker with a recorded pair takes the
\* pair, makes it current, restores the mask and resumes, in this order, and
\* the thread resumed is the one the interrupt entry recorded.
C22_IsrReturnResumesEntryThread ==
    IsrReturnWithPair =>
        /\ last.steps = IsrReturnSteps
        /\ PREVIOUS_PAIR = None
        /\ ResumedThread = last.entryPair

\* C22, as the code has it: the four steps run in this order when the
\* process of the recorded pair still exists (otherwise the kernel panics
\* after the take), and the thread resumed is the one PREVIOUS_PAIR named
\* when the marker was met: the one recorded at interrupt entry unless
\* set_isr_return_pair replaced it since.
C22_IsrReturnResumesRecordedPair ==
    /\ (IsrReturnWithPair /\ last.pairAlive) =>
          /\ last.steps = IsrReturnSteps
          /\ last.outcomes = <<"resume">>
          /\ PREVIOUS_PAIR = None
          /\ <<curPid, curTid[curPid]>> = last.pair
          /\ sim = SIM_BACKING
          /\ ResumedThread = last.pair
    /\ (IsrReturnWithPair /\ ~last.pairAlive) =>
          /\ last.steps = <<"PREVIOUS_PAIR.take", "halt">>
          /\ PREVIOUS_PAIR = None
          /\ halted = "unable to resume previous PID"

C22_Witness ==
    /\ IsrReturnWithPair
    /\ last.pairAlive
    /\ last.entryPair # last.pair
    /\ last.steps = IsrReturnSteps
    /\ ResumedThread = last.pair
    /\ sim # 0

EntryContext == <<last.pid, last.tid>>

\* C23, as claimed: a hardware interrupt that finds no pair records the
\* context running at trap entry, one that finds a pair leaves it alone, and
\* the pair therefore always names the context that was interrupted first.
C23_PairNamesFirstInterrupted ==
    /\ last.class = "interrupt" =>
          PREVIOUS_PAIR = (IF last.pair = None THEN EntryContext ELSE last.pair)
    /\ PREVIOUS_PAIR # None => PREVIOUS_PAIR = last.entryPair

\* C23, as the code has it: a hardware interrupt that finds no pair records
\* the context running at trap entry (not the interrupt thread that
\* crate::irq::handle makes current afterwards); one that finds a pair leaves
\* it as it found it, whatever recorded it.
C23_InterruptRecordsOnlyWhenNone ==
    last.class = "interrupt" =>
        /\ last.pair = None =>
              /\ PREVIOUS_PAIR = EntryContext
              /\ last.entryPair = EntryContext
        /\ last.pair # None => PREVIOUS_PAIR = last.pair
        /\ last.outcomes = <<"resume">>
        /\ ResumedThread = <<curPid, curTid[curPid]>>

C23_Witness ==
    /\ last.class = "interrupt"
    /\ last.pair # None
    /\ PREVIOUS_PAIR = last.pair
    /\ EntryContext # last.pair
    /\ ResumedThread # EntryContext

StepCount(l, name) == Cardinality({ i \in 1..Len(l.steps) : l.steps[i] = name })

PairFrameClasses ==
    {"page_fault", "return_from_exception_handler", "exit_thread", "exception",
     "kernel_stack"}

C25_SepcAdvancedOnceBeforeDispatch ==
    last.class = "syscall" =>
        /\ StepCount(last, "sepc += 4") = 1
        /\ last.steps[1] = "sepc += 4"
        /\ last.steps[2] = "SysCall::from_args"
        /\ last.decodes =>
              /\ last.steps[3] = "syscall::handle"
              /\ last.handlerSaw[4] = Wrap(last.epc + 4)
        /\ ResumedThread = EntryContext => last.resumed[3] = Wrap(last.epc + 4)
        /\ ResumedThread # EntryContext => sepc[last.pid][last.tid] = Wrap(last.epc + 4)

C25_Witness ==
    /\ last.class = "syscall"
    /\ last.decodes
    /\ last.handlerSaw[4] = UserPc + 4
    /\ ResumedThread # EntryContext
    /\ last.outcomes = <<"resume">>
    /\ sepc[last.pid][last.tid] = UserPc + 4

\* C26: crate::syscall::handle is called with the pid and tid current at
\* trap entry and with whether a pair is recorded; trap_handler ends in
\* resume exactly when the answer is ResumeProcess, and otherwise hands the
\* answer, an Err(e) turned into Result::Error(e), to the return-with-result
\* primitive for the current thread.
C26_ResponseSelectsPrimitive ==
    (last.class = "syscall" /\ last.decodes) =>
        /\ StepCount(last, "syscall::handle") = 1
        /\ <<last.handlerSaw[1], last.handlerSaw[2], last.handlerSaw[3]>>
              = <<last.pid, last.tid, last.pair # None>>
        /\ (last.answer = "ResumeProcess") = (last.outcomes = <<"resume">>)
        /\ (last.answer # "ResumeProcess") = (last.outcomes = <<"return_result">>)
        /\ last.answer = "ResumeProcess" => last.result = ""
        /\ last.answer = "Ok" => last.result = "Ok"
        /\ last.answer = "Err(e)" => last.result = "Error(e)"
        /\ ResumedThread = <<curPid, curTid[curPid]>>

C26_Witness ==
    /\ last.class = "syscall"
    /\ last.decodes
    /\ last.answer = "Err(e)"
    /\ last.result = "Error(e)"
    /\ last.outcomes = <<"return_result">>
    /\ last.handlerSaw[3]

\* begin_exception_handler gave Some: a handler is registered and not running.
HandlerTaken == last.hadHandler /\ ~last.inHandler

\* C27: a load or store page fault whose page ensure_page_exists_inner maps
\* ends in the resume of the faulting thread at the faulting instruction and
\* nothing else; one it cannot map resumes nothing in the page-fault branch
\* and goes on as an unrecognized exception: to the userspace handler when
\* begin_exception_handler yields one, and otherwise to the fatal handling
\* (the process terminated, or the kernel halted for a supervisor fault).
C27_PageFaultResumesOrFallsThrough ==
    last.class = "page_fault" =>
        /\ last.ensured =>
              /\ last.steps = <<"ensure_page_exists_inner", "resume">>
              /\ last.resumed = <<last.pid, last.tid, last.epc>>
              /\ ~last.unrecognized
              /\ last.terminated = {}
        /\ ~last.ensured =>
              /\ last.steps[1] = "ensure_page_exists_inner failed"
              /\ last.steps[2] # "resume"
              /\ Len(last.outcomes) = 1
              /\ last.unrecognized
              /\ last.expressible
              /\ last.tval \notin present[last.pid]
              /\ HandlerTaken =>
                    /\ last.steps[2] = "begin_exception_handler"
                    /\ Did("invoke")
                    /\ ResumedThread = <<last.pid, EXCEPTION_TID>>
                    /\ last.terminated = {}
              /\ (~HandlerTaken /\ last.spp = "User") =>
                    /\ last.steps[2] = "terminate_process"
                    /\ last.terminated = {last.pid}
                    /\ last.outcomes = <<"resume">>
              /\ (~HandlerTaken /\ last.spp = "Supervisor") =>
                    /\ last.steps[2] = "halt"
                    /\ halted = "!!! KERNEL FAILURE !!!"

C27_Witness ==
    /\ last.class = "page_fault"
    /\ ~last.ensured
    /\ last.tval = "unmapped"
    /\ HandlerTaken
    /\ Did("invoke")
    /\ ResumedThread = <<last.pid, EXCEPTION_TID>>

\* C28: a RETURN_FROM_EXCEPTION_HANDLER marker met while the handler runs
\* leaves the restored thread's saved sepc at (sepc + d) mod 2^UsizeBits, d
\* being a0 read as a signed number, whatever a0 is, and resumes that thread.
C28_SepcAdjustedModulo ==
    (last.class = "return_from_exception_handler" /\ last.inHandler) =>
        /\ last.outcomes = <<"resume">>
        /\ halted = ""
        /\ ResumedThread = <<curPid, curTid[curPid]>>
        /\ last.resumed[3] = AsUsize(Wrap(last.sepcBefore) + AsIsize(last.a0))

C30_HandlerInvokedOnExceptionThread ==
    (last.unrecognized /\ last.expressible /\ HandlerTaken) =>
        /\ last.steps[Len(last.steps) - 2] = "begin_exception_handler"
        /\ last.steps[Len(last.steps) - 1] = "invoke"
        /\ last.invoked = [tid |-> EXCEPTION_TID, pc |-> HandlerPc, sp |-> HandlerSp,
                           ret |-> RETURN_FROM_EXCEPTION_HANDLER,
                           args |-> <<ExceptionKind(last.cause), last.epc, last.tval>>]
        /\ last.invoked.args[1] # "None"
        /\ last.outcomes = <<"resume">>
        /\ last.resumed = <<last.pid, EXCEPTION_TID, HandlerPc>>
        /\ curPid = last.pid
        /\ curTid[curPid] = EXCEPTION_TID
        /\ last.tid # EXCEPTION_TID
        /\ sepc[last.pid][last.tid] = last.epc
        /\ excFrom[last.pid] = <<last.tid>>
        /\ last.terminated = {}
        /\ alive = last.aliveBefore
        /\ halted = ""

C30_Witness ==
    /\ last.unrecognized
    /\ last.expressible
    /\ HandlerTaken
    /\ last.class = "exception"
    /\ last.cause = CauseIllegalInstruction
    /\ last.spp = "User"
    /\ last.invoked.args = <<"IllegalInstruction", UserPc, "unmapped">>
    /\ last.resumed = <<last.pid, EXCEPTION_TID, HandlerPc>>

\* C31: an enable_all_irqs that follows two or more disable_all_irqs calls,
\* with no enable_all_irqs between them, leaves the mask register at the
\* value it had before the first of these disable_all_irqs calls.
C31_NestedDisableRestoresOuterMask ==
    (maskLog.op = "enable_all_irqs" /\ maskLog.nest >= 2) => sim = maskLog.outer


\* The first tag of the stream is an XArg tag of size 20.
HeaderAccepted(tags) ==
    Len(tags) > 0 /\ tags[1].name = "XArg" /\ tags[1].size = XArgSize

\* The two panics read_initial_config raises on the first tag.
HeaderPanics == {"couldn't read initial tag", "XArg wasn't first tag, or was invalid size"}

\* C32: read_initial_config returns only for a stream whose first tag is XArg
\* of size 20; for an empty stream or any other first tag it panics on that
\* tag with the BootConfig still as it was given (no SRAM bound, region count,
\* flag or process count set), and a stream with a good first tag never
\* raises one of the two first-tag panics.
C32_HeaderGuardsConfig ==
    /\ lpc \in {"parsed_once", "parsed_twice"} => HeaderAccepted(region.args)
    /\ (lpc = "panic" /\ ~HeaderAccepted(region.args)) =>
          /\ loaderPanic = IF region.args = <<>> THEN "couldn't read initial tag"
                           ELSE "XArg wasn't first tag, or was invalid size"
          /\ cfg = [DefaultBootConfig EXCEPT !.base_addr = "args.base", !.args = region.args]
    /\ (lpc = "panic" /\ HeaderAccepted(region.args)) => loaderPanic \notin HeaderPanics

\* C32 witness: an XArg tag of the wrong size followed by a kernel and an
\* initial process was rejected.
C32_Witness ==
    /\ lpc = "panic"
    /\ Len(region.args) >= 3
    /\ region.args[1].name = "XArg"
    /\ region.args[1].size # XArgSize
    /\ region.args[1].data[3] # 0
    /\ \E i \in 2..Len(region.args) : region.args[i].name = "XKrn"
    /\ \E i \in 2..Len(region.args) : region.args[i].name \in {"IniE", "IniF"}


\* The positions after the first tag that hold a tag with one of `names`.
TagsNamed(tags, names) == { i \in 2..Len(tags) : tags[i].name \in names }

\* C33: read_initial_config returns only for a stream with exactly one XKrn
\* tag, of the size of ProgramDescription, and at least one IniE or IniF tag;
\* a stream with two XKrn tags or an XKrn tag of another size makes it panic;
\* and each call that returns has raised init_process_count by the number of
\* IniE and IniF tags of the stream.
C33_OneKernelAndInitCount ==
    LET krn == TagsNamed(region.args, {"XKrn"})
        ini == TagsNamed(region.args, {"IniE", "IniF"})
    IN  /\ lpc \in {"parsed_once", "parsed_twice"} =>
              /\ Cardinality(krn) = 1
              /\ \A i \in krn : region.args[i].size = ProgramDescriptionSize
              /\ Cardinality(ini) >= 1
              /\ cfg.init_process_count =
                    Cardinality(ini) * (IF lpc = "parsed_once" THEN 1 ELSE 2)
        /\ ( /\ lpc # "unparsed"
             /\ \/ Cardinality(krn) > 1
                \/ \E i \in krn : region.args[i].size # ProgramDescriptionSize )
             => lpc = "panic" /\ loaderPanic # ""

\* C33 witness: a stream with one kernel, an IniE and an IniF tag was
\* accepted with two initial processes counted.
C33_Witness ==
    /\ lpc = "parsed_once"
    /\ \E i, j \in 2..Len(region.args) :
          region.args[i].name = "IniE" /\ region.args[j].name = "IniF"
    /\ cfg.init_process_count = 2


\* The first WORDS_PER_SECTOR - 1 words of a sector of the marker this boot
\* started with, the two seed words of sector 0 replaced by the seed registers.
SectorWords(sector) ==
    [ i \in 1..(WORDS_PER_SECTOR - 1) |->
        IF sector = 0 /\ i - 1 \in PatchedOffsets THEN seeds[i - 1]
        ELSE ram0[SuspendMarker(cfg) + sector * WORDS_PER_SECTOR + (i - 1)] ]

\* The sectors whose last word is the hash of the words before it.
MatchingSectors ==
    { sector \in 0..(NUM_SECTORS - 1) :
        ram0[SuspendMarker(cfg) + sector * WORDS_PER_SECTOR + (WORDS_PER_SECTOR - 1)]
            = murmur3_32(SectorWords(sector)) }

\* C34: check_resume reports clean exactly when in every sector the last
\* word equals the hash of the words before it (in sector 0 with words 1 and
\* 2 replaced by the seed registers), and it has hashed every sector, in
\* order, whether or not an earlier one mismatched.
C34_CleanIffEverySectorMatches ==
    (Len(markerChecks) = 1 /\ boots = 0) =>
        /\ resumeInfo.clean <=> MatchingSectors = 0..(NUM_SECTORS - 1)
        /\ resumeInfo.examined = [ i \in 1..NUM_SECTORS |-> i - 1 ]

\* C34 witness: the first sector mismatches, the last one matches, and
\* check_resume reported not clean after hashing all of them.
C34_Witness ==
    /\ Len(markerChecks) = 1
    /\ boots = 0
    /\ 0 \notin MatchingSectors
    /\ NUM_SECTORS - 1 \in MatchingSectors
    /\ ~resumeInfo.clean
    /\ Len(resumeInfo.examined) = NUM_SECTORS


\* Bit i of the word w.
WordBit(w, i) == (w \div (2 ^ i)) % 2

\* C35: the root translation pointer a resume passes to the kernel has the
\* mode bit (the top bit) and the page-number bits (the low SatpPpnBits bits)
\* of the saved word, and in between the low SatpAsidBits bits of the pid
\* read from word 3 of the marker; no other bit of the pid reaches it.
C35_ResumeSatpBitLayout ==
    (lpc = "kernel" /\ kernelArgs # <<>> /\ kernelArgs.clean) =>
        /\ resumeInfo.pid = ram0[SuspendMarker(cfg) + 3]
        /\ kernelArgs.satp \in SatpWords
        /\ \A i \in 0..(SatpBits - 1) :
              WordBit(kernelArgs.satp, i) =
                 IF i < SatpPpnBits \/ i = SatpBits - 1
                 THEN WordBit(ram[BackupAddr(3)], i)
                 ELSE WordBit(resumeInfo.pid, i - SatpPpnBits)

\* C35 witness: a pid wider than the process-id field, with its bit above
\* the field set, met a saved word without the mode bit.
C35_Witness ==
    /\ lpc = "kernel"
    /\ kernelArgs # <<>>
    /\ kernelArgs.clean
    /\ resumeInfo.pid >= 2 ^ SatpAsidBits
    /\ WordBit(resumeInfo.pid, SatpAsidBits) = 1
    /\ WordBit(ram[BackupAddr(3)], SatpBits - 1) = 0
    /\ WordBit(kernelArgs.satp, SatpBits - 1) = 0


\* C36: a resume has written the suspend/resume STATE register with RESUME
\* and WAS_FORCED when word 0 of the marker this boot started with was
\* non-zero and with RESUME alone when it was zero; up to then, and on a cold
\* boot throughout, the register has not been written.
C36_StateRegisterFollowsForcedWord ==
    IF lpc = "kernel" /\ kernelArgs # <<>> /\ kernelArgs.clean
    THEN csr.susres_state = IF ram0[SuspendMarker(cfg)] # 0
                            THEN {"RESUME", "WAS_FORCED"} ELSE {"RESUME"}
    ELSE csr.susres_state = {}

\* C36 witness: a resume from a forced suspend, the marker already zeroed.
C36_Witness ==
    /\ lpc = "kernel"
    /\ kernelArgs # <<>>
    /\ kernelArgs.clean
    /\ ram0[SuspendMarker(cfg)] # 0
    /\ ram[SuspendMarker(cfg)] = 0
    /\ csr.susres_state = {"RESUME", "WAS_FORCED"}


\* C37: a get_u32 call in raw mode that has reached its busy-wait returns
\* once the peripheral shows BUFREADY, and only then; while it waits the
\* count is already one less than it was (one less than the refill count
\* after a refill).
C37_RawGetU32ReturnsWhenReady ==
    /\ [](tpc = "wait" =>
            /\ trng.mode = "Raw"
            /\ trng.count = IF trngLog.refill THEN RefillCount - 1 ELSE trngLog.before - 1)
    /\ [][(tpc = "wait" /\ tpc' # "wait") => (bufReady /\ trngLog'.ret = "Some")]_vars
    /\ (tpc = "wait") ~> (tpc = "idle" /\ trngLog.ret = "Some")

\* C37 witness: a call that found the count at 0 refilled, waited and
\* returned a word.
C37_Witness ==
    /\ tpc = "idle"
    /\ trngLog.op = "get_u32"
    /\ trngLog.refill
    /\ trngLog.ret = "Some"
    /\ trng.count = RefillCount - 1


(***************************************************************************)
(* The IFRAM allocator                                                     *)
(***************************************************************************)
AssertionMessage == "Found pages should be exactly equal to size_pages at this point"

\* C38: no try_alloc call fails its assertion: whenever the search ended with
\* a start and found_len >= size_pages, found_len equals size_pages, and the
\* service has not panicked on it.
C38_AllocAssertionNeverFails ==
    /\ halPanic # AssertionMessage
    /\ \A i \in 1..Len(halLog.calls) :
          (halLog.calls[i].free_start # None
              /\ halLog.calls[i].found_len >= halLog.calls[i].size_pages)
          => halLog.calls[i].found_len = halLog.calls[i].size_pages

\* The starts of the runs of n contiguous free pages of a table.
FreeRuns(table, n) ==
    { s \in 0..(Len(table) - 1) :
        s + n <= Len(table) /\ \A j \in s..(s + n - 1) : table[j + 1] = None }

LowestOf(S) == CHOOSE s \in S : \A t \in S : s <= t

\* C39: every try_alloc call for n pages returned 4096 * s for the lowest
\* start s of a run of n free pages of the table it was given, with exactly
\* the pages s..s+n-1 now owned by the sender, when there was such a run, and
\* returned None with the table unchanged when there was none.
C39_TryAllocIsFirstFit ==
    \A i \in 1..Len(halLog.calls) :
        LET c == halLog.calls[i]
            runs == FreeRuns(c.before, c.size_pages)
        IN  IF runs # {}
            THEN /\ c.panic = ""
                 /\ c.ret = <<IFRAM_PAGE * LowestOf(runs)>>
                 /\ c.table = [ j \in 1..Len(c.before) |->
                                  IF j - 1 \in LowestOf(runs)..(LowestOf(runs) + c.size_pages - 1)
                                  THEN <<c.sender>> ELSE c.before[j] ]
            ELSE /\ c.panic = ""
                 /\ c.ret = None
                 /\ c.table = c.before

\* C40: an UnmapIfram with the size and address a successful MapIfram has
\* just replied does not panic and leaves both tables as they were before
\* that MapIfram.
C40_MapUnmapRoundTrip ==
    ( /\ halLog.op = "UnmapIfram"
      /\ halLog.prevOp = "MapIfram"
      /\ halLog.prevReply[1] # 0
      /\ halLog.size = halLog.prevReply[1]
      /\ halLog.arg = halLog.prevReply[2] )
    => (halPanic = "" /\ ifram_allocs = halLog.prevBefore)

====
